---- MODULE Spec2Model ----
(***************************************************************************)
(* Model of the pure core of the guitar chord transposer:                  *)
(*   lib/transpose.ts  pitch model, chord tokenizer, transposition engine  *)
(*   lib/chords.ts     voicing catalog                                     *)
(*   lib/capo.ts       capo advisor                                        *)
(*                                                                         *)
(* A JavaScript string is modelled as a sequence of characters, each       *)
(* character being a one-character TLA+ string; the two Unicode glyphs the *)
(* code mentions are the characters "u266F" (sharp sign) and "u266D" (flat *)
(* sign), and the degree sign and the capital delta are "u00B0" and        *)
(* "u0394"; the em dash is "u2014".                                        *)
(***************************************************************************)
EXTENDS Integers, Sequences, FiniteSets, TLC

VARIABLES
    fn,           \* the exported function the caller invokes
    argText,      \* its string argument: note, symbol, text or fromKey
    argKey,       \* its second string argument (toKey), else the empty string
    steps,        \* its steps argument
    preferSharps, \* its preferSharps argument
    capoFret,     \* its capoFret argument
    argState,     \* its ShareState argument
    shareEnv,     \* the copy of lib/share.ts called and the runtimes that encode and decode
    pc,           \* "call" before the body runs, "return" after, "back" after the reverse call,
                  \* "encoded" between encodeShareState and decodeShareState
    retStr,       \* the string the call returned
    retNum,       \* the number the call returned
    retNaN,       \* TRUE when the returned number is NaN
    retNull,      \* TRUE when the call returned null
    retState,     \* the ShareState the call returned
    pop,          \* Transposer: the pop state {open, sym, capoForCard} (the rect is left out)
    transposer,   \* Transposer: title, input, fromKey, toKey, showCapo, capoFret, isDemo, and
                  \* mounted, FALSE until the effects of the first render have run
    linkToken,    \* the state parameter of the address the page was opened with, else empty
    userText,     \* history: the chart the user typed last or the link carried, else empty
    toaster,      \* ToasterProvider: toasts, idRef, the ids whose timer is pending, and
                  \* history: the duration option of every call, by id
    card,         \* ChordPopoverCard: idx, voicings.length, whether the effect on [sym] is due,
                  \* what it shows
    retParsed,    \* the {root, tail} the call returned
    retShapes,    \* the sequence of shapes the call returned
    retSuggestions, \* the sequence of capo suggestions the call returned
    retQuality,   \* the quality bucket the call returned, "" before it returns
    threw         \* TRUE when the call raised an exception

args == <<fn, argText, argKey, steps, preferSharps, capoFret, argState, shareEnv>>

vars == <<fn, argText, argKey, steps, preferSharps, capoFret, argState, shareEnv, pc,
          retStr, retNum, retNaN, retNull, retState, retParsed, retShapes, retSuggestions,
          retQuality, threw, pop, card, transposer, linkToken, userText, toaster>>

\* the state of the components
uiVars == <<pop, card, transposer, linkToken, userText, toaster>>

\* the state of a call of an exported function
callVars == <<args, pc, retStr, retNum, retNaN, retNull, retState, retParsed, retShapes,
              retSuggestions, retQuality, threw>>

\* ------------------------------------------------------------------------
\* Bounds of the model
\* ------------------------------------------------------------------------
MaxSteps == 14

MaxTextLen == 4

MaxRawLen == 2

MaxKeyLen == 2

MaxSymbolLen == 2

MaxTailLen == 4

\* ------------------------------------------------------------------------
\* JavaScript string primitives
\* ------------------------------------------------------------------------
Take(s, n) == SubSeq(s, 1, n)

Drop(s, n) == SubSeq(s, n + 1, Len(s))

LOWER == <<"a","b","c","d","e","f","g","h","i","j","k","l","m",
           "n","o","p","q","r","s","t","u","v","w","x","y","z">>

UPPER == <<"A","B","C","D","E","F","G","H","I","J","K","L","M",
           "N","O","P","Q","R","S","T","U","V","W","X","Y","Z">>

toUpperCase(c) ==
    IF \E i \in 1..26 : LOWER[i] = c
    THEN UPPER[CHOOSE i \in 1..26 : LOWER[i] = c]
    ELSE c

toLowerCase(c) ==
    IF \E i \in 1..26 : UPPER[i] = c
    THEN LOWER[CHOOSE i \in 1..26 : UPPER[i] = c]
    ELSE c

\* the characters the regular-expression class \s matches
IsSpace(c) == c \in {" ", "\t", "\n", "\r"}

IsDigit(c) == c \in {"0","1","2","3","4","5","6","7","8","9"}

\* String.prototype.replace(pattern, by) with a string pattern of one
\* character: only the first occurrence is replaced
replaceFirst(s, from, to) ==
    IF \E i \in 1..Len(s) : s[i] = from
    THEN LET k == CHOOSE i \in 1..Len(s) : s[i] = from /\ \A j \in 1..(i-1) : s[j] # from
         IN  [i \in 1..Len(s) |-> IF i = k THEN to ELSE s[i]]
    ELSE s

RECURSIVE trimStart(_)
trimStart(s) == IF s # <<>> /\ IsSpace(s[1]) THEN trimStart(Tail(s)) ELSE s

RECURSIVE trimEnd(_)
trimEnd(s) == IF s # <<>> /\ IsSpace(s[Len(s)]) THEN trimEnd(Take(s, Len(s) - 1)) ELSE s

trim(s) == trimEnd(trimStart(s))

\* the remainder operator % of JavaScript: the sign follows the dividend
JsRem(a, b) == IF a >= 0 THEN a % b ELSE -((-a) % b)

\* Array.prototype.join("")
RECURSIVE join(_)
join(parts) == IF parts = <<>> THEN <<>> ELSE Head(parts) \o join(Tail(parts))

\* ------------------------------------------------------------------------
\* lib/transpose.ts: pitch model
\* ------------------------------------------------------------------------
SHARPS == << <<"C">>, <<"C","#">>, <<"D">>, <<"D","#">>, <<"E">>, <<"F">>,
             <<"F","#">>, <<"G">>, <<"G","#">>, <<"A">>, <<"A","#">>, <<"B">> >>

FLATS == << <<"C">>, <<"D","b">>, <<"D">>, <<"E","b">>, <<"E">>, <<"F">>,
            <<"G","b">>, <<"G">>, <<"A","b">>, <<"A">>, <<"B","b">>, <<"B">> >>

ENHARMONIC_MAP ==
    (<<"C">> :> 0)      @@ (<<"B","#">> :> 0) @@
    (<<"C","#">> :> 1)  @@ (<<"D","b">> :> 1) @@
    (<<"D">> :> 2)      @@
    (<<"D","#">> :> 3)  @@ (<<"E","b">> :> 3) @@
    (<<"E">> :> 4)      @@ (<<"F","b">> :> 4) @@
    (<<"F">> :> 5)      @@ (<<"E","#">> :> 5) @@
    (<<"F","#">> :> 6)  @@ (<<"G","b">> :> 6) @@
    (<<"G">> :> 7)      @@
    (<<"G","#">> :> 8)  @@ (<<"A","b">> :> 8) @@
    (<<"A">> :> 9)      @@
    (<<"A","#">> :> 10) @@ (<<"B","b">> :> 10) @@
    (<<"B">> :> 11)     @@ (<<"C","b">> :> 11)

\* ENHARMONIC_MAP is a plain object literal: a lookup by a name that is not an
\* own key walks the prototype chain, so the member names of Object.prototype
\* yield a function or an object instead of undefined
ObjectPrototypeKeys ==
    { <<"c","o","n","s","t","r","u","c","t","o","r">>,
      <<"t","o","S","t","r","i","n","g">>,
      <<"v","a","l","u","e","O","f">>,
      <<"t","o","L","o","c","a","l","e","S","t","r","i","n","g">>,
      <<"h","a","s","O","w","n","P","r","o","p","e","r","t","y">>,
      <<"i","s","P","r","o","t","o","t","y","p","e","O","f">>,
      <<"_","_","p","r","o","t","o","_","_">> }

SHARP_KEYS == { <<"G">>, <<"D">>, <<"A">>, <<"E">>, <<"B">>, <<"F","#">>, <<"C","#">> }

FLAT_KEYS == { <<"F">>, <<"B","b">>, <<"E","b">>, <<"A","b">>, <<"D","b">>, <<"G","b">>, <<"C","b">> }

ALL_KEYS == << <<"C">>, <<"G">>, <<"D">>, <<"A">>, <<"E">>, <<"B">>, <<"F","#">>, <<"C","#">>,
               <<"F">>, <<"B","b">>, <<"E","b">>, <<"A","b">>, <<"D","b">>, <<"G","b">>, <<"C","b">> >>

\* preferSharpsForKey without the flat keys
preferSharpsAlways(key) == TRUE

preferSharpsForKey(key) ==
    IF key \in SHARP_KEYS THEN TRUE
    ELSE IF key \in FLAT_KEYS THEN FALSE
    ELSE TRUE

\* the value null where a string is expected; no string of the model is this
\* sequence (its element is not a character)
Null == <<"null value">>

\* the string "undefined" that undefined + "" evaluates to
UndefinedText == <<"u","n","d","e","f","i","n","e","d">>

normNote(raw) ==
    IF raw = <<>> THEN Null
    ELSE LET t    == trim(replaceFirst(replaceFirst(raw, "u266F", "#"), "u266D", "b"))
             head == IF Len(t) >= 1 THEN <<toUpperCase(t[1])>> ELSE UndefinedText
             acc  == IF Len(t) >= 2 /\ t[2] \in {"#", "b"} THEN <<t[2]>> ELSE <<>>
             note == head \o acc
         IN  IF note \in DOMAIN ENHARMONIC_MAP THEN note ELSE Null

indexOf(note) == ENHARMONIC_MAP[note]

\* chooseSpelling with the two tables exchanged
chooseSpellingSwapped(semitone, sharps) ==
    LET st == JsRem(JsRem(semitone, 12) + 12, 12)
    IN  IF sharps THEN FLATS[st + 1] ELSE SHARPS[st + 1]

chooseSpelling(semitone, sharps) ==
    LET st == JsRem(JsRem(semitone, 12) + 12, 12)
    IN  IF sharps THEN SHARPS[st + 1] ELSE FLATS[st + 1]

\* transposeNote without the normalisation of a negative remainder into 0..11:
\* the remainder is folded by its absolute value instead
transposeNoteAbs(noteRaw, st, sharps) ==
    LET note == normNote(noteRaw)
    IN  IF note = Null THEN noteRaw
        ELSE LET idx    == indexOf(note)
                 r      == JsRem(idx + st, 12)
                 outIdx == IF r < 0 THEN -r ELSE r
             IN  chooseSpelling(outIdx, sharps)

transposeNote(noteRaw, st, sharps) ==
    LET note == normNote(noteRaw)
    IN  IF note = Null THEN noteRaw
        ELSE LET idx    == indexOf(note)
                 outIdx == JsRem(JsRem(idx + st, 12) + 12, 12)
             IN  chooseSpelling(outIdx, sharps)

\* ------------------------------------------------------------------------
\* lib/transpose.ts: chord tokenizer
\* ------------------------------------------------------------------------
IsRootLetter(c) == toUpperCase(c) \in {"A","B","C","D","E","F","G"}

IsPunct(c) == c \in {",", "|", "(", ")", "[", "]"}

\* CHORD_RE = /^([A-G](?:#|b)?)([^/\s]*)$/i; the flag i makes the root letter
\* and the accidental b match in either case
CHORD_RE(symbol) ==
    IF /\ Len(symbol) >= 1
       /\ IsRootLetter(symbol[1])
       /\ \A i \in 2..Len(symbol) : symbol[i] # "/" /\ ~IsSpace(symbol[i])
    THEN LET n == IF Len(symbol) >= 2 /\ symbol[2] \in {"#", "b", "B"} THEN 2 ELSE 1
         IN  [matched |-> TRUE, root |-> Take(symbol, n), tail |-> Drop(symbol, n)]
    ELSE [matched |-> FALSE, root |-> <<>>, tail |-> <<>>]

\* the three-letter alternatives of the chord-likeness pattern, matched in either case
QualityWords == { <<"m","a","j">>, <<"m","i","n">>, <<"d","i","m">>,
                  <<"a","u","g">>, <<"s","u","s">>, <<"a","d","d">> }

\* the one-character alternatives: m, a digit, /, a root letter, #, b, +, -, degree, delta
IsTailChar(c) ==
    \/ toLowerCase(c) = "m"
    \/ IsDigit(c)
    \/ IsRootLetter(c)
    \/ c \in {"/", "#", "+", "-", "u00B0", "u0394"}

\* (?: ... )*$ : some way of cutting s into alternatives of the pattern
RECURSIVE MatchesTail(_)
MatchesTail(s) ==
    \/ s = <<>>
    \/ IsTailChar(s[1]) /\ MatchesTail(Tail(s))
    \/ /\ Len(s) >= 3
       /\ <<toLowerCase(s[1]), toLowerCase(s[2]), toLowerCase(s[3])>> \in QualityWords
       /\ MatchesTail(Drop(s, 3))

isChordLike(s) == Len(s) >= 1 /\ IsRootLetter(s[1]) /\ MatchesTail(Tail(s))

\* the length of the longest prefix of s whose characters are all white
\* space (ws = TRUE) or all not white space (ws = FALSE)
RECURSIVE RunLen(_, _)
RunLen(s, ws) ==
    IF s # <<>> /\ (IsSpace(s[1]) = ws) THEN 1 + RunLen(Tail(s), ws) ELSE 0

\* input.split(/(\s+)/): the runs between white space, with the white-space
\* runs kept as elements of their own (an empty string at an edge that is white space)
RECURSIVE SplitWhitespace(_)
SplitWhitespace(s) ==
    LET n == RunLen(s, FALSE)
    IN  IF n = Len(s) THEN <<s>>
        ELSE LET rest == Drop(s, n)
                 w    == RunLen(rest, TRUE)
             IN  <<Take(s, n), Take(rest, w)>> \o SplitWhitespace(Drop(rest, w))

RECURSIVE PunctFreeLen(_)
PunctFreeLen(s) == IF s # <<>> /\ ~IsPunct(s[1]) THEN 1 + PunctFreeLen(Tail(s)) ELSE 0

\* tok.split(/([,\|\(\)\[\]])/): the pieces between punctuation characters,
\* with each punctuation character kept as a piece of its own
RECURSIVE SplitPunct(_)
SplitPunct(s) ==
    LET n == PunctFreeLen(s)
    IN  IF n = Len(s) THEN <<s>>
        ELSE <<Take(s, n), <<s[n + 1]>>>> \o SplitPunct(Drop(s, n + 1))

RECURSIVE SlashFreeLen(_)
SlashFreeLen(s) == IF s # <<>> /\ s[1] # "/" THEN 1 + SlashFreeLen(Tail(s)) ELSE 0

\* symbol.split("/")
RECURSIVE SplitSlash(_)
SplitSlash(s) ==
    LET n == SlashFreeLen(s)
    IN  IF n = Len(s) THEN <<s>>
        ELSE <<Take(s, n)>> \o SplitSlash(Drop(s, n + 1))

includes(s, c) == \E i \in 1..Len(s) : s[i] = c

\* ------------------------------------------------------------------------
\* lib/transpose.ts: transposition engine
\* ------------------------------------------------------------------------
RECURSIVE transposeChordSymbol(_, _, _)
transposeChordSymbol(symbol, st, sharps) ==
    IF includes(symbol, "/")
    THEN LET parts == SplitSlash(symbol)
             top   == parts[1]
             bass  == parts[2]
         IN  transposeChordSymbol(top, st, sharps) \o <<"/">> \o transposeChordSymbol(bass, st, sharps)
    ELSE LET m == CHORD_RE(symbol)
         IN  IF ~m.matched THEN symbol
             ELSE transposeNote(m.root, st, sharps) \o m.tail

maybeTransposeToken(tok, st, sharps) ==
    IF tok = <<>> \/ \A i \in 1..Len(tok) : IsSpace(tok[i]) THEN tok
    ELSE IF (\E i \in 1..Len(tok) : IsPunct(tok[i])) /\ ~includes(tok, "/")
         THEN LET pieces == SplitPunct(tok)
              IN  join([i \in 1..Len(pieces) |->
                          IF isChordLike(pieces[i])
                          THEN transposeChordSymbol(pieces[i], st, sharps)
                          ELSE pieces[i]])
         ELSE IF isChordLike(tok) THEN transposeChordSymbol(tok, st, sharps) ELSE tok

\* transposeChordText with the white space not kept: split(/\s+/) and join(" ")
transposeChordTextCollapsing(input, st, sharps) ==
    LET tokens == SplitWhitespace(input)
        words  == [i \in 1..Len(tokens) |->
                     IF i % 2 = 1 THEN maybeTransposeToken(tokens[i], st, sharps) ELSE <<" ">>]
    IN  join(words)

transposeChordText(input, st, sharps) ==
    LET tokens == SplitWhitespace(input)
    IN  join([i \in 1..Len(tokens) |-> maybeTransposeToken(tokens[i], st, sharps)])

\* the value of ENHARMONIC_MAP[key] ?? ENHARMONIC_MAP[normNote(key) ?? "C"]:
\* a number, or something that is not a number when the lookup finds a member
\* of Object.prototype (num is then meaningless)
KeyIndex(key) ==
    IF key \in DOMAIN ENHARMONIC_MAP THEN [isNumber |-> TRUE, num |-> ENHARMONIC_MAP[key]]
    ELSE IF key \in ObjectPrototypeKeys THEN [isNumber |-> FALSE, num |-> 0]
    ELSE LET n == normNote(key)
         IN  [isNumber |-> TRUE, num |-> ENHARMONIC_MAP[IF n = Null THEN <<"C">> ELSE n]]

\* to - from: NaN when an operand is not a number
stepsFromKeys(fromKey, toKey) ==
    LET from == KeyIndex(fromKey)
        to   == KeyIndex(toKey)
    IN  IF from.isNumber /\ to.isNumber
        THEN [nan |-> FALSE, num |-> to.num - from.num]
        ELSE [nan |-> TRUE, num |-> 0]

\* ------------------------------------------------------------------------
\* lib/chords.ts: voicing catalog
\* ------------------------------------------------------------------------
\* a Shape: name, shortName, positions (low E to high E), baseFret, barres,
\* quality and family; a shape without barres has barres = <<>>
OPEN_SHAPES ==
    (<<"C">> :> [name |-> <<"C">>, shortName |-> <<"C">>,
        positions |-> <<-1, 3, 2, 0, 1, 0>>, baseFret |-> 1, barres |-> <<>>, quality |-> "maj", family |-> "open"]) @@
    (<<"D">> :> [name |-> <<"D">>, shortName |-> <<"D">>,
        positions |-> <<-1, -1, 0, 2, 3, 2>>, baseFret |-> 1, barres |-> <<>>, quality |-> "maj", family |-> "open"]) @@
    (<<"E">> :> [name |-> <<"E">>, shortName |-> <<"E">>,
        positions |-> <<0, 2, 2, 1, 0, 0>>, baseFret |-> 1, barres |-> <<>>, quality |-> "maj", family |-> "open"]) @@
    (<<"G">> :> [name |-> <<"G">>, shortName |-> <<"G">>,
        positions |-> <<3, 2, 0, 0, 0, 3>>, baseFret |-> 1, barres |-> <<>>, quality |-> "maj", family |-> "open"]) @@
    (<<"A">> :> [name |-> <<"A">>, shortName |-> <<"A">>,
        positions |-> <<-1, 0, 2, 2, 2, 0>>, baseFret |-> 1, barres |-> <<>>, quality |-> "maj", family |-> "open"]) @@
    (<<"F">> :> [name |-> <<"F"," ","(","l","i","t","e",")">>, shortName |-> <<"F">>,
        positions |-> <<-1, -1, 3, 2, 1, 1>>, baseFret |-> 1, barres |-> <<>>, quality |-> "maj", family |-> "open"]) @@
    (<<"C","m","a","j","7">> :> [name |-> <<"C","m","a","j","7">>, shortName |-> <<"C","m","a","j","7">>,
        positions |-> <<-1, 3, 2, 0, 0, 0>>, baseFret |-> 1, barres |-> <<>>, quality |-> "maj7", family |-> "open"]) @@
    (<<"A","m","a","j","7">> :> [name |-> <<"A","m","a","j","7">>, shortName |-> <<"A","m","a","j","7">>,
        positions |-> <<-1, 0, 2, 1, 2, 0>>, baseFret |-> 1, barres |-> <<>>, quality |-> "maj7", family |-> "open"]) @@
    (<<"D","m","a","j","7">> :> [name |-> <<"D","m","a","j","7">>, shortName |-> <<"D","m","a","j","7">>,
        positions |-> <<-1, -1, 0, 2, 2, 2>>, baseFret |-> 1, barres |-> <<>>, quality |-> "maj7", family |-> "open"]) @@
    (<<"F","m","a","j","7">> :> [name |-> <<"F","m","a","j","7">>, shortName |-> <<"F","m","a","j","7">>,
        positions |-> <<-1, -1, 3, 2, 1, 0>>, baseFret |-> 1, barres |-> <<>>, quality |-> "maj7", family |-> "open"]) @@
    (<<"A","m">> :> [name |-> <<"A","m">>, shortName |-> <<"A","m">>,
        positions |-> <<-1, 0, 2, 2, 1, 0>>, baseFret |-> 1, barres |-> <<>>, quality |-> "min", family |-> "open"]) @@
    (<<"D","m">> :> [name |-> <<"D","m">>, shortName |-> <<"D","m">>,
        positions |-> <<-1, -1, 0, 2, 3, 1>>, baseFret |-> 1, barres |-> <<>>, quality |-> "min", family |-> "open"]) @@
    (<<"E","m">> :> [name |-> <<"E","m">>, shortName |-> <<"E","m">>,
        positions |-> <<0, 2, 2, 0, 0, 0>>, baseFret |-> 1, barres |-> <<>>, quality |-> "min", family |-> "open"]) @@
    (<<"A","m","7">> :> [name |-> <<"A","m","7">>, shortName |-> <<"A","m","7">>,
        positions |-> <<-1, 0, 2, 0, 1, 0>>, baseFret |-> 1, barres |-> <<>>, quality |-> "m7", family |-> "open"]) @@
    (<<"E","m","7">> :> [name |-> <<"E","m","7">>, shortName |-> <<"E","m","7">>,
        positions |-> <<0, 2, 2, 0, 3, 0>>, baseFret |-> 1, barres |-> <<>>, quality |-> "m7", family |-> "open"]) @@
    (<<"C","7">> :> [name |-> <<"C","7">>, shortName |-> <<"C","7">>,
        positions |-> <<-1, 3, 2, 3, 1, 0>>, baseFret |-> 1, barres |-> <<>>, quality |-> "7", family |-> "open"]) @@
    (<<"D","7">> :> [name |-> <<"D","7">>, shortName |-> <<"D","7">>,
        positions |-> <<-1, -1, 0, 2, 1, 2>>, baseFret |-> 1, barres |-> <<>>, quality |-> "7", family |-> "open"]) @@
    (<<"E","7">> :> [name |-> <<"E","7">>, shortName |-> <<"E","7">>,
        positions |-> <<0, 2, 0, 1, 0, 0>>, baseFret |-> 1, barres |-> <<>>, quality |-> "7", family |-> "open"]) @@
    (<<"G","7">> :> [name |-> <<"G","7">>, shortName |-> <<"G","7">>,
        positions |-> <<3, 2, 0, 0, 0, 1>>, baseFret |-> 1, barres |-> <<>>, quality |-> "7", family |-> "open"]) @@
    (<<"A","7">> :> [name |-> <<"A","7">>, shortName |-> <<"A","7">>,
        positions |-> <<-1, 0, 2, 0, 2, 0>>, baseFret |-> 1, barres |-> <<>>, quality |-> "7", family |-> "open"]) @@
    (<<"A","s","u","s","4">> :> [name |-> <<"A","s","u","s","4">>, shortName |-> <<"A","s","u","s","4">>,
        positions |-> <<-1, 0, 2, 2, 3, 0>>, baseFret |-> 1, barres |-> <<>>, quality |-> "sus4", family |-> "open"]) @@
    (<<"D","s","u","s","4">> :> [name |-> <<"D","s","u","s","4">>, shortName |-> <<"D","s","u","s","4">>,
        positions |-> <<-1, -1, 0, 2, 3, 3>>, baseFret |-> 1, barres |-> <<>>, quality |-> "sus4", family |-> "open"]) @@
    (<<"C","a","d","d","9">> :> [name |-> <<"C","a","d","d","9">>, shortName |-> <<"C","a","d","d","9">>,
        positions |-> <<-1, 3, 2, 0, 3, 3>>, baseFret |-> 1, barres |-> <<>>, quality |-> "add9", family |-> "open"]) @@
    (<<"G","a","d","d","9">> :> [name |-> <<"G","a","d","d","9">>, shortName |-> <<"G","a","d","d","9">>,
        positions |-> <<3, 2, 0, 0, 3, 0>>, baseFret |-> 1, barres |-> <<>>, quality |-> "add9", family |-> "open"])

NOTE_ORDER_SHARPS == SHARPS

\* the table enh of toSharp
EnharmonicToSharp ==
    (<<"B","#">> :> <<"C">>)     @@ (<<"C","b">> :> <<"B">>) @@
    (<<"E","#">> :> <<"F">>)     @@ (<<"F","b">> :> <<"E">>) @@
    (<<"D","b">> :> <<"C","#">>) @@ (<<"E","b">> :> <<"D","#">>) @@
    (<<"G","b">> :> <<"F","#">>) @@ (<<"A","b">> :> <<"G","#">>) @@
    (<<"B","b">> :> <<"A","#">>)

InSeq(x, seq) == \E i \in 1..Len(seq) : seq[i] = x

\* Array.prototype.indexOf, counted from 0; -1 when absent
IndexIn(x, seq) ==
    IF InSeq(x, seq) THEN (CHOOSE i \in 1..Len(seq) : seq[i] = x /\ \A j \in 1..(i-1) : seq[j] # x) - 1
    ELSE -1

\* toSharp without the table of enharmonic spellings
toSharpNoTable(note) ==
    LET n == replaceFirst(replaceFirst(note, "u266F", "#"), "u266D", "b")
    IN  IF ~InSeq(n, NOTE_ORDER_SHARPS)
        THEN [threw |-> TRUE, note |-> <<>>]
        ELSE [threw |-> FALSE, note |-> n]

\* toSharp: threw = TRUE stands for "throw new Error(`Bad note: ...`)"
toSharp(note) ==
    LET n       == replaceFirst(replaceFirst(note, "u266F", "#"), "u266D", "b")
        sharped == IF n \in DOMAIN EnharmonicToSharp THEN EnharmonicToSharp[n] ELSE n
    IN  IF ~InSeq(sharped, NOTE_ORDER_SHARPS)
        THEN [threw |-> TRUE, note |-> <<>>]
        ELSE [threw |-> FALSE, note |-> sharped]

semitoneDistance(openNote, target) ==
    LET a == IndexIn(openNote, NOTE_ORDER_SHARPS)
        b == IndexIn(target, NOTE_ORDER_SHARPS)
    IN  JsRem(b - a + 12, 12)

Min(a, b) == IF a < b THEN a ELSE b

Max(a, b) == IF a > b THEN a ELSE b

\* chooseComfortableBaseFret without the move from the nut to fret 12
chooseBaseFretAtNut(f) == Max(0, Min(12, f))

chooseComfortableBaseFret(f) ==
    IF f = 0 THEN 12
    ELSE IF f >= 1 /\ f <= 5 THEN f
    ELSE IF f >= 6 /\ f <= 9 THEN f
    ELSE Max(1, Min(12, f))

baseFretFor_Eshape(root) == chooseComfortableBaseFret(semitoneDistance(<<"E">>, root))

baseFretFor_Ashape(root) == chooseComfortableBaseFret(semitoneDistance(<<"A">>, root))

tplE_major == [positions |-> <<1, 3, 3, 2, 1, 1>>, barre |-> [fromString |-> 0, toString |-> 5, fret |-> 1], family |-> "barre-e"]

tplE_minor == [positions |-> <<1, 3, 3, 1, 1, 1>>, barre |-> [fromString |-> 0, toString |-> 5, fret |-> 1], family |-> "barre-e"]

tplE_7 == [positions |-> <<1, 3, 1, 2, 1, 1>>, barre |-> [fromString |-> 0, toString |-> 5, fret |-> 1], family |-> "barre-e"]

tplA_major == [positions |-> <<-1, 1, 3, 3, 3, 1>>, barre |-> [fromString |-> 1, toString |-> 5, fret |-> 1], family |-> "barre-a"]

tplA_minor == [positions |-> <<-1, 1, 3, 3, 2, 1>>, barre |-> [fromString |-> 1, toString |-> 5, fret |-> 1], family |-> "barre-a"]

tplA_7 == [positions |-> <<-1, 1, 3, 1, 3, 1>>, barre |-> [fromString |-> 1, toString |-> 5, fret |-> 1], family |-> "barre-a"]

Digits == <<"0","1","2","3","4","5","6","7","8","9">>

\* the decimal text of a non-negative integer, as a template literal prints it
RECURSIVE NumberText(_)
NumberText(n) ==
    IF n < 10 THEN <<Digits[n + 1]>>
    ELSE NumberText(n \div 10) \o <<Digits[(n % 10) + 1]>>

makeBarre(root, quality, system, baseFret) ==
    LET tpl    == IF system = "E"
                  THEN (IF quality = "maj" THEN tplE_major ELSE IF quality = "min" THEN tplE_minor ELSE tplE_7)
                  ELSE (IF quality = "maj" THEN tplA_major ELSE IF quality = "min" THEN tplA_minor ELSE tplA_7)
        suffix == IF quality = "min" THEN <<"m">> ELSE IF quality = "7" THEN <<"7">> ELSE <<>>
    IN  [name      |-> root \o suffix \o <<" ", "(", system>>
                       \o <<"-","s","h","a","p","e"," ","b","a","r","r","e"," ","@">>
                       \o NumberText(baseFret) \o <<")">>,
         shortName |-> root \o suffix,
         positions |-> tpl.positions,
         baseFret  |-> baseFret,
         barres    |-> <<tpl.barre>>,
         quality   |-> quality,
         family    |-> tpl.family]

\* the comparator of the sort in generateBarresFor
ByBaseFret(x, y) == x.baseFret - y.baseFret

\* the comparator of the final sort with the two open-shape tests exchanged
OpenLast(a, b) ==
    IF a.family = "open" /\ b.family # "open" THEN 1
    ELSE IF b.family = "open" /\ a.family # "open" THEN -1
    ELSE a.baseFret - b.baseFret

\* the comparator of the final sort: open shapes first, then by baseFret
OpenFirst(a, b) ==
    IF a.family = "open" /\ b.family # "open" THEN -1
    ELSE IF b.family = "open" /\ a.family # "open" THEN 1
    ELSE a.baseFret - b.baseFret

\* the comparator of the sort in suggestCaposForTargetKey: higher score first
ByScore(a, b) == b.score - a.score

\* the comparator a sort is called with
Compare(order, a, b) ==
    IF order = "ByBaseFret" THEN ByBaseFret(a, b)
    ELSE IF order = "ByScore" THEN ByScore(a, b)
    ELSE OpenFirst(a, b)

\* Array.prototype.sort with a comparator: the sort is stable, so an element
\* goes behind every earlier element that does not compare greater than it
InsertSorted(sorted, x, order) ==
    LET keep == { j \in 1..Len(sorted) : Compare(order, sorted[j], x) <= 0 }
        p    == IF keep = {} THEN 0 ELSE CHOOSE j \in keep : \A k \in keep : k <= j
    IN  Take(sorted, p) \o <<x>> \o Drop(sorted, p)

StableSort(seq, order) ==
    LET sortedPrefix[k \in 0..Len(seq)] ==
            IF k = 0 THEN <<>> ELSE InsertSorted(sortedPrefix[k - 1], seq[k], order)
    IN  sortedPrefix[Len(seq)]

generateBarresFor(root, quality) ==
    LET eBase == baseFretFor_Eshape(root)
        eAlt  == eBase + 12
        aBase == baseFretFor_Ashape(root)
        aAlt  == aBase + 12
        list  == (IF eBase >= 1 /\ eBase <= 12 THEN <<makeBarre(root, quality, "E", eBase)>> ELSE <<>>)
                 \o (IF eAlt >= 13 /\ eAlt <= 17 THEN <<makeBarre(root, quality, "E", eAlt)>> ELSE <<>>)
                 \o (IF aBase >= 1 /\ aBase <= 12 THEN <<makeBarre(root, quality, "A", aBase)>> ELSE <<>>)
                 \o (IF aAlt >= 13 /\ aAlt <= 17 THEN <<makeBarre(root, quality, "A", aAlt)>> ELSE <<>>)
    IN  StableSort(list, "ByBaseFret")

normalizeEnharmonic(root) == toSharp(root)

\* the characters the regular-expression dot does not match
IsLineTerminator(c) == c \in {"\n", "\r"}

\* parseChordSymbol: /^([A-G](?:#|b)?)(.*)$/i, then toSharp on the root, which
\* may throw; kind is "null", "ok" or "throw"
parseChordSymbol(symbol) ==
    IF /\ Len(symbol) >= 1
       /\ IsRootLetter(symbol[1])
       /\ \A i \in 2..Len(symbol) : ~IsLineTerminator(symbol[i])
    THEN LET n    == IF Len(symbol) >= 2 /\ symbol[2] \in {"#", "b", "B"} THEN 2 ELSE 1
             root == normalizeEnharmonic(Take(symbol, n))
             rest == Drop(symbol, n)
         IN  IF root.threw
             THEN [kind |-> "throw", root |-> <<>>, tail |-> <<>>]
             ELSE [kind |-> "ok", root |-> root.note,
                   tail |-> [i \in 1..Len(rest) |-> toLowerCase(rest[i])]]
    ELSE [kind |-> "null", root |-> <<>>, tail |-> <<>>]

\* String.prototype.includes with a string argument
includesText(s, sub) ==
    \E i \in 1..(Len(s) - Len(sub) + 1) : SubSeq(s, i, i + Len(sub) - 1) = sub

\* the characters of the class \w
IsWordChar(c) == IsDigit(c) \/ c = "_" \/ toLowerCase(c) \in { LOWER[i] : i \in 1..26 }

\* /\bm(?!aj)/: an m at a word boundary that does not begin "maj"
HasMinorM(tail) ==
    \E i \in 1..Len(tail) :
        /\ tail[i] = "m"
        /\ (i = 1 \/ ~IsWordChar(tail[i - 1]))
        /\ ~(i + 2 <= Len(tail) /\ tail[i + 1] = "a" /\ tail[i + 2] = "j")

\* coarseQuality with the test for a minor m ahead of the tests for maj7 and m7
coarseQualityMinFirst(tail) ==
    IF HasMinorM(tail) THEN "min"
    ELSE IF includesText(tail, <<"m","a","j","7">>) THEN "maj7"
    ELSE IF includes(tail, "7") THEN "7"
    ELSE IF includesText(tail, <<"s","u","s","4">>) THEN "sus4"
    ELSE IF includesText(tail, <<"a","d","d","9">>) THEN "add9"
    ELSE "majLike"

coarseQuality(tail) ==
    IF includesText(tail, <<"m","a","j","7">>) THEN "maj7"
    ELSE IF HasMinorM(tail) /\ includes(tail, "7") THEN "m7"
    ELSE IF HasMinorM(tail) THEN "min"
    ELSE IF includes(tail, "7") THEN "7"
    ELSE IF includesText(tail, <<"s","u","s","4">>) THEN "sus4"
    ELSE IF includesText(tail, <<"a","d","d","9">>) THEN "add9"
    ELSE "majLike"

\* the filter that keeps the first shape of each (family, baseFret, name)
Unique(voicings) ==
    LET Key(v) == <<v.family, v.baseFret, v.name>>
        kept   == { i \in 1..Len(voicings) : \A j \in 1..(i - 1) : Key(voicings[j]) # Key(voicings[i]) }
        pick[k \in 0..Len(voicings)] ==
            IF k = 0 THEN <<>>
            ELSE IF k \in kept THEN Append(pick[k - 1], voicings[k]) ELSE pick[k - 1]
    IN  pick[Len(voicings)]

\* findVoicingsFor without the fallback to the plain major open shape
findVoicingsNoFallback(symbol) ==
    LET parsed == parseChordSymbol(symbol)
    IN  IF parsed.kind = "throw" THEN [threw |-> TRUE, shapes |-> <<>>]
        ELSE IF parsed.kind = "null" THEN [threw |-> FALSE, shapes |-> <<>>]
        ELSE LET root    == parsed.root
                 quality == coarseQuality(parsed.tail)
                 openKey == IF quality = "min" THEN root \o <<"m">>
                            ELSE IF quality = "7" THEN root \o <<"7">>
                            ELSE IF quality = "maj7" THEN root \o <<"m","a","j","7">>
                            ELSE IF quality = "m7" THEN root \o <<"m","7">>
                            ELSE IF quality = "sus4" THEN root \o <<"s","u","s","4">>
                            ELSE IF quality = "add9" THEN root \o <<"a","d","d","9">>
                            ELSE root
                 open    == IF openKey \in DOMAIN OPEN_SHAPES THEN <<OPEN_SHAPES[openKey]>>
                            ELSE <<>>
                 barres  == IF quality \in {"min", "7", "majLike"}
                            THEN generateBarresFor(root, IF quality = "min" THEN "min"
                                                         ELSE IF quality = "7" THEN "7" ELSE "maj")
                            ELSE generateBarresFor(root, IF quality = "m7" THEN "min" ELSE "maj")
             IN  [threw |-> FALSE, shapes |-> StableSort(Unique(open \o barres), "OpenFirst")]

\* findVoicingsFor: threw = TRUE when parseChordSymbol throws
findVoicingsFor(symbol) ==
    LET parsed == parseChordSymbol(symbol)
    IN  IF parsed.kind = "throw" THEN [threw |-> TRUE, shapes |-> <<>>]
        ELSE IF parsed.kind = "null" THEN [threw |-> FALSE, shapes |-> <<>>]
        ELSE LET root    == parsed.root
                 quality == coarseQuality(parsed.tail)
                 openKey == IF quality = "min" THEN root \o <<"m">>
                            ELSE IF quality = "7" THEN root \o <<"7">>
                            ELSE IF quality = "maj7" THEN root \o <<"m","a","j","7">>
                            ELSE IF quality = "m7" THEN root \o <<"m","7">>
                            ELSE IF quality = "sus4" THEN root \o <<"s","u","s","4">>
                            ELSE IF quality = "add9" THEN root \o <<"a","d","d","9">>
                            ELSE root
                 open    == IF openKey \in DOMAIN OPEN_SHAPES THEN <<OPEN_SHAPES[openKey]>>
                            ELSE IF root \in DOMAIN OPEN_SHAPES THEN <<OPEN_SHAPES[root]>>
                            ELSE <<>>
                 barres  == IF quality \in {"min", "7", "majLike"}
                            THEN generateBarresFor(root, IF quality = "min" THEN "min"
                                                         ELSE IF quality = "7" THEN "7" ELSE "maj")
                            ELSE generateBarresFor(root, IF quality = "m7" THEN "min" ELSE "maj")
             IN  [threw |-> FALSE, shapes |-> StableSort(Unique(open \o barres), "OpenFirst")]

\* ------------------------------------------------------------------------
\* lib/capo.ts: capo advisor
\* ------------------------------------------------------------------------
OPEN_SHAPE_KEYS == { <<"C">>, <<"G">>, <<"D">>, <<"A">>, <<"E">> }

\* shapesKeyFor transposing up by capoFret instead of down
shapesKeyForUp(targetKey, fret) ==
    transposeNote(targetKey, fret, preferSharpsForKey(targetKey))

shapesKeyFor(targetKey, fret) ==
    transposeNote(targetKey, -fret, preferSharpsForKey(targetKey))

\* the comfort bonus without the floor at 0 and without the steeper slope
\* beyond fret 5
comfortBonusLinear(fret) == 20 - fret * 2

\* the positional comfort bonus of scoreCapo, in points
comfortBonus(fret) ==
    IF fret <= 5 THEN 20 - fret * 2
    ELSE Max(0, 10 - (fret - 5) * 3)

biasOrder == << <<"G">>, <<"C">>, <<"D">>, <<"A">>, <<"E">> >>

\* the bias of scoreCapo, in half points: the code multiplies this by 0.5
biasHalves(shapesKey) == Max(0, 5 - Max(0, IndexIn(shapesKey, biasOrder)))

\* scoreCapo without the bonus of the open-shape keys
scoreCapoNoOpenBonus(shapesKey, fret) ==
    2 * comfortBonus(fret) + biasHalves(shapesKey)

\* scoreCapo without the positional comfort bonus
scoreCapoNoComfort(shapesKey, fret) ==
    (IF shapesKey \in OPEN_SHAPE_KEYS THEN 2 * 100 ELSE 0)
    + biasHalves(shapesKey)

\* scoreCapo; every score of the code is a multiple of 0.5, and the model
\* counts a score in half points (twice the number of the code)
scoreCapo(shapesKey, fret) ==
    (IF shapesKey \in OPEN_SHAPE_KEYS THEN 2 * 100 ELSE 0)
    + 2 * comfortBonus(fret)
    + biasHalves(shapesKey)

\* reasonFor: the text is kept in pieces, the shapes key between the fixed parts
reasonFor(shapesKey, fret) ==
    IF fret = 0 /\ shapesKey \in OPEN_SHAPE_KEYS
    THEN <<"No capo needed ", "u2014", " classic open ">> \o shapesKey \o <<" shapes">>
    ELSE IF shapesKey \in OPEN_SHAPE_KEYS
    THEN <<"Open ">> \o shapesKey \o <<" shapes (easy chord grips)">>
    ELSE IF fret <= 2 THEN <<"Low capo, comfortable reach">>
    ELSE <<"Usable option">>

\* the suggestion the loop of suggestCaposForTargetKey pushes for a fret
suggestionAt(targetKey, fret) ==
    LET shapesKey == shapesKeyFor(targetKey, fret)
    IN  [capoFret  |-> fret,
         shapesKey |-> shapesKey,
         score     |-> scoreCapo(shapesKey, fret),
         reason    |-> reasonFor(shapesKey, fret)]

\* suggestCaposForTargetKey without the sort: the first five frets evaluated
suggestCaposUnsorted(targetKey) ==
    Take([i \in 1..12 |-> suggestionAt(targetKey, i - 1)], 5)

\* suggestCaposForTargetKey with a sort that is not stable: among equal scores
\* the fret evaluated later comes first
suggestCaposTiesReversed(targetKey) ==
    LET suggestions == [i \in 1..12 |-> suggestionAt(targetKey, 12 - i)]
    IN  Take(StableSort(suggestions, "ByScore"), 5)

suggestCaposForTargetKey(targetKey) ==
    LET suggestions == [i \in 1..12 |-> suggestionAt(targetKey, i - 1)]
    IN  Take(StableSort(suggestions, "ByScore"), 5)

\* ------------------------------------------------------------------------
\* lib/share.ts: share-state tokens. In this part a JavaScript string is a
\* sequence of code units (numbers), a byte array a sequence of numbers in
\* 0..255, and a Base64 text a sequence of characters
\* ------------------------------------------------------------------------
\* the printable ASCII characters, from code 32 to code 126 (u0060 is the
\* grave accent)
Ascii ==
    << " ", "!", "\"", "#", "$", "%", "&", "'", "(", ")", "*", "+", ",", "-", ".", "/",
       "0", "1", "2", "3", "4", "5", "6", "7", "8", "9", ":", ";", "<", "=", ">", "?",
       "@", "A", "B", "C", "D", "E", "F", "G", "H", "I", "J", "K", "L", "M", "N", "O",
       "P", "Q", "R", "S", "T", "U", "V", "W", "X", "Y", "Z", "[", "\\", "]", "^", "_",
       "u0060", "a", "b", "c", "d", "e", "f", "g", "h", "i", "j", "k", "l", "m", "n", "o",
       "p", "q", "r", "s", "t", "u", "v", "w", "x", "y", "z", "{", "|", "}", "~" >>

\* the code unit of a character of the model
CodeOf(c) ==
    IF c = "\n" THEN 10
    ELSE IF c = "u00E9" THEN 233
    ELSE IF c = "u266F" THEN 9839
    ELSE IF c = "u266D" THEN 9837
    ELSE IndexIn(c, Ascii) + 32

Codes(text) == [i \in 1..Len(text) |-> CodeOf(text[i])]

\* the Base64 alphabet, from value 0 to value 63
Base64Alphabet ==
    << "A", "B", "C", "D", "E", "F", "G", "H", "I", "J", "K", "L", "M", "N", "O", "P",
       "Q", "R", "S", "T", "U", "V", "W", "X", "Y", "Z", "a", "b", "c", "d", "e", "f",
       "g", "h", "i", "j", "k", "l", "m", "n", "o", "p", "q", "r", "s", "t", "u", "v",
       "w", "x", "y", "z", "0", "1", "2", "3", "4", "5", "6", "7", "8", "9", "+", "/" >>

\* the elements lo..hi of a sequence of sequences, joined
RECURSIVE FlatRange(_, _, _)
FlatRange(seqs, lo, hi) ==
    IF lo > hi THEN <<>>
    ELSE IF lo = hi THEN seqs[lo]
    ELSE FlatRange(seqs, lo, (lo + hi) \div 2) \o FlatRange(seqs, ((lo + hi) \div 2) + 1, hi)

Flat(seqs) == FlatRange(seqs, 1, Len(seqs))

\* TextEncoder.encode and Buffer.from(str, "utf-8"): the UTF-8 bytes of a string
Utf8Encode(str) ==
    Flat([i \in 1..Len(str) |->
            IF str[i] < 128 THEN <<str[i]>>
            ELSE IF str[i] < 2048 THEN <<192 + (str[i] \div 64), 128 + (str[i] % 64)>>
            ELSE <<224 + (str[i] \div 4096), 128 + ((str[i] \div 64) % 64), 128 + (str[i] % 64)>>])

IsContinuation(b) == b >= 128 /\ b < 192

\* TextDecoder.decode and Buffer.toString("utf-8"); 65533 is the replacement
\* character a decoder writes for a byte that begins no sequence of one, two
\* or three bytes. A lead byte is never part of the sequence before it, so a
\* byte is taken by an earlier sequence exactly when a lead byte one or two
\* places before it begins a sequence that reaches it
Utf8Decode(bytes) ==
    LET n == Len(bytes)
        Two(i)   == /\ bytes[i] >= 194 /\ bytes[i] < 224
                    /\ i + 1 <= n /\ IsContinuation(bytes[i + 1])
        Three(i) == /\ bytes[i] >= 224 /\ bytes[i] < 240
                    /\ i + 2 <= n /\ IsContinuation(bytes[i + 1]) /\ IsContinuation(bytes[i + 2])
                    /\ (bytes[i] - 224) * 4096 + (bytes[i + 1] - 128) * 64 + (bytes[i + 2] - 128) >= 2048
        Taken(i) == \/ i > 1 /\ (Two(i - 1) \/ Three(i - 1))
                    \/ i > 2 /\ Three(i - 2)
        Unit(i)  == IF Taken(i) THEN <<>>
                    ELSE IF bytes[i] < 128 THEN <<bytes[i]>>
                    ELSE IF Two(i) THEN <<(bytes[i] - 192) * 64 + (bytes[i + 1] - 128)>>
                    ELSE IF Three(i)
                         THEN <<(bytes[i] - 224) * 4096 + (bytes[i + 1] - 128) * 64 + (bytes[i + 2] - 128)>>
                    ELSE <<65533>>
    IN  Flat([i \in 1..n |-> Unit(i)])

\* the Base64 text of a byte array, with its = padding
Base64OfBytes(bytes) ==
    LET n == Len(bytes)
        Group(g) ==
            LET b1 == bytes[3 * g - 2]
                b2 == IF 3 * g - 1 <= n THEN bytes[3 * g - 1] ELSE 0
                b3 == IF 3 * g <= n THEN bytes[3 * g] ELSE 0
                v  == b1 * 65536 + b2 * 256 + b3
            IN  << Base64Alphabet[(v \div 262144) + 1],
                   Base64Alphabet[((v \div 4096) % 64) + 1],
                   IF 3 * g - 1 <= n THEN Base64Alphabet[((v \div 64) % 64) + 1] ELSE "=",
                   IF 3 * g <= n THEN Base64Alphabet[(v % 64) + 1] ELSE "=" >>
    IN  Flat([g \in 1..((n + 2) \div 3) |-> Group(g)])

\* the bytes of a text of Base64 characters without padding; a last group of
\* one character holds no byte
BytesOfBase64(chars) ==
    LET n == Len(chars)
        Val(i) == IF i <= n THEN IndexIn(chars[i], Base64Alphabet) ELSE 0
        Group(g) ==
            LET v    == Val(4 * g - 3) * 262144 + Val(4 * g - 2) * 4096 + Val(4 * g - 1) * 64 + Val(4 * g)
                have == Min(4, n - (4 * g - 4))
            IN  IF have <= 1 THEN <<>>
                ELSE IF have = 2 THEN <<v \div 65536>>
                ELSE IF have = 3 THEN <<v \div 65536, (v \div 256) % 256>>
                ELSE <<v \div 65536, (v \div 256) % 256, v % 256>>
    IN  Flat([g \in 1..((n + 3) \div 4) |-> Group(g)])

\* btoa: threw = TRUE stands for the InvalidCharacterError raised for a code
\* unit above 255
btoa(bin) ==
    IF \E i \in 1..Len(bin) : bin[i] > 255
    THEN [threw |-> TRUE, text |-> <<>>]
    ELSE [threw |-> FALSE, text |-> Base64OfBytes(bin)]

\* atob, the forgiving Base64 decode: one or two trailing = are dropped only
\* when the length is a multiple of 4; then a length of 1 mod 4 or a character
\* outside the alphabet (a left-over = included) raises InvalidCharacterError
atob(data) ==
    LET n        == Len(data)
        stripped == IF n % 4 = 0 /\ n >= 2 /\ data[n] = "=" /\ data[n - 1] = "="
                    THEN Take(data, n - 2)
                    ELSE IF n % 4 = 0 /\ n >= 1 /\ data[n] = "="
                    THEN Take(data, n - 1)
                    ELSE data
    IN  IF \/ Len(stripped) % 4 = 1
           \/ \E i \in 1..Len(stripped) : ~InSeq(stripped[i], Base64Alphabet)
        THEN [threw |-> TRUE, bin |-> <<>>]
        ELSE [threw |-> FALSE, bin |-> BytesOfBase64(stripped)]

\* Buffer.from(b64, "base64"): lenient, it reads up to the first = and takes
\* - and _ for + and /
BufferFromBase64(b64) ==
    LET stops == { i \in 1..Len(b64) : b64[i] = "=" }
        upto  == IF stops = {} THEN Len(b64) ELSE (CHOOSE i \in stops : \A j \in stops : i <= j) - 1
    IN  BytesOfBase64([i \in 1..upto |->
                          IF b64[i] = "-" THEN "+" ELSE IF b64[i] = "_" THEN "/" ELSE b64[i]])

\* replace(/\+/g, "-").replace(/\//g, "_").replace(/=+$/g, "")
StripUrlSafe(b64) ==
    LET keep == { i \in 1..Len(b64) : b64[i] # "=" } \cup {0}
        last == CHOOSE i \in keep : \A j \in keep : j <= i
    IN  [i \in 1..last |-> IF b64[i] = "+" THEN "-" ELSE IF b64[i] = "/" THEN "_" ELSE b64[i]]

\* replace(/-/g, "+").replace(/_/g, "/")
UnUrlSafe(s) ==
    [i \in 1..Len(s) |-> IF s[i] = "-" THEN "+" ELSE IF s[i] = "_" THEN "/" ELSE s[i]]

\* "=".repeat(n)
Repeat(c, n) == [i \in 1..n |-> c]

\* ------------------------------------------------------------------------
\* JSON.stringify and JSON.parse, for the objects a share state is
\* ------------------------------------------------------------------------
HexDigits == Codes(<<"0","1","2","3","4","5","6","7","8","9","a","b","c","d","e","f">>)

\* the text JSON.stringify writes for one code unit inside a string
JsonEscape(c) ==
    IF c = 34 THEN <<92, 34>>
    ELSE IF c = 92 THEN <<92, 92>>
    ELSE IF c = 8 THEN <<92, 98>>
    ELSE IF c = 9 THEN <<92, 116>>
    ELSE IF c = 10 THEN <<92, 110>>
    ELSE IF c = 12 THEN <<92, 102>>
    ELSE IF c = 13 THEN <<92, 114>>
    ELSE IF c < 32 THEN <<92, 117, 48, 48, HexDigits[(c \div 16) + 1], HexDigits[(c % 16) + 1]>>
    ELSE <<c>>

JsonString(str) == <<34>> \o Flat([i \in 1..Len(str) |-> JsonEscape(str[i])]) \o <<34>>

RECURSIVE JsonDigits(_)
JsonDigits(n) ==
    IF n < 10 THEN <<48 + n>> ELSE JsonDigits(n \div 10) \o <<48 + (n % 10)>>

\* an integer; the frets of the capo control are integers
JsonNumber(n) == IF n < 0 THEN <<45>> \o JsonDigits(-n) ELSE JsonDigits(n)

JsonBoolean(b) == IF b THEN Codes(<<"t","r","u","e">>) ELSE Codes(<<"f","a","l","s","e">>)

\* JSON.stringify(state): the seven fields in the order the caller writes them
JsonStringify(state) ==
    Codes(<<"{","\"","t","i","t","l","e","\"",":">>) \o JsonString(state.title)
    \o Codes(<<",","\"","i","n","p","u","t","\"",":">>) \o JsonString(state.input)
    \o Codes(<<",","\"","f","r","o","m","K","e","y","\"",":">>) \o JsonString(state.fromKey)
    \o Codes(<<",","\"","t","o","K","e","y","\"",":">>) \o JsonString(state.toKey)
    \o Codes(<<",","\"","c","a","p","o","F","r","e","t","\"",":">>) \o JsonNumber(state.capoFret)
    \o Codes(<<",","\"","s","h","o","w","C","a","p","o","\"",":">>) \o JsonBoolean(state.showCapo)
    \o Codes(<<",","\"","i","n","c","l","u","d","e","D","i","a","g","r","a","m","s","\"",":">>) \o JsonBoolean(state.includeDiagrams)
    \o <<125>>

JsonFail == [ok |-> FALSE, type |-> "undefined", val |-> <<>>, next |-> 0]

RECURSIVE JsonSkipSpace(_, _)
JsonSkipSpace(json, i) ==
    IF i <= Len(json) /\ json[i] \in {32, 9, 10, 13} THEN JsonSkipSpace(json, i + 1) ELSE i

HexValue(c) ==
    IF c >= 48 /\ c <= 57 THEN c - 48
    ELSE IF c >= 97 /\ c <= 102 THEN c - 87
    ELSE IF c >= 65 /\ c <= 70 THEN c - 55
    ELSE -1

\* the string whose opening quote was read, from position i on
RECURSIVE JsonReadString(_, _, _)
JsonReadString(json, i, acc) ==
    IF i > Len(json) THEN JsonFail
    ELSE IF json[i] = 34 THEN [ok |-> TRUE, type |-> "string", val |-> acc, next |-> i + 1]
    ELSE IF json[i] < 32 THEN JsonFail
    ELSE IF json[i] # 92 THEN JsonReadString(json, i + 1, Append(acc, json[i]))
    ELSE IF i + 1 > Len(json) THEN JsonFail
    ELSE IF json[i + 1] \in {34, 92, 47} THEN JsonReadString(json, i + 2, Append(acc, json[i + 1]))
    ELSE IF json[i + 1] = 98 THEN JsonReadString(json, i + 2, Append(acc, 8))
    ELSE IF json[i + 1] = 116 THEN JsonReadString(json, i + 2, Append(acc, 9))
    ELSE IF json[i + 1] = 110 THEN JsonReadString(json, i + 2, Append(acc, 10))
    ELSE IF json[i + 1] = 102 THEN JsonReadString(json, i + 2, Append(acc, 12))
    ELSE IF json[i + 1] = 114 THEN JsonReadString(json, i + 2, Append(acc, 13))
    ELSE IF /\ json[i + 1] = 117 /\ i + 5 <= Len(json)
            /\ \A k \in 2..5 : HexValue(json[i + k]) >= 0
         THEN JsonReadString(json, i + 6,
                  Append(acc, HexValue(json[i + 2]) * 4096 + HexValue(json[i + 3]) * 256
                              + HexValue(json[i + 4]) * 16 + HexValue(json[i + 5])))
    ELSE JsonFail

IsDigitCode(c) == c >= 48 /\ c <= 57

RECURSIVE JsonReadDigits(_, _, _)
JsonReadDigits(json, i, acc) ==
    IF i <= Len(json) /\ IsDigitCode(json[i])
    THEN JsonReadDigits(json, i + 1, acc * 10 + (json[i] - 48))
    ELSE [ok |-> TRUE, type |-> "number", val |-> acc, next |-> i]

\* an integer: an optional minus, then 0 or digits that do not begin with 0
JsonReadNumber(json, i) ==
    LET neg == json[i] = 45
        j   == IF neg THEN i + 1 ELSE i
    IN  IF j > Len(json) \/ ~IsDigitCode(json[j]) THEN JsonFail
        ELSE IF json[j] = 48 THEN [ok |-> TRUE, type |-> "number", val |-> 0, next |-> j + 1]
        ELSE LET r == JsonReadDigits(json, j, 0)
             IN  IF neg THEN [r EXCEPT !.val = -r.val] ELSE r

StartsAt(json, i, word) ==
    /\ i + Len(word) - 1 <= Len(json)
    /\ \A k \in 1..Len(word) : json[i + k - 1] = word[k]

\* a string, an integer, true, false or null
JsonReadScalar(json, i) ==
    IF i > Len(json) THEN JsonFail
    ELSE IF json[i] = 34 THEN JsonReadString(json, i + 1, <<>>)
    ELSE IF json[i] = 45 \/ IsDigitCode(json[i]) THEN JsonReadNumber(json, i)
    ELSE IF StartsAt(json, i, JsonBoolean(TRUE))
         THEN [ok |-> TRUE, type |-> "boolean", val |-> TRUE, next |-> i + 4]
    ELSE IF StartsAt(json, i, JsonBoolean(FALSE))
         THEN [ok |-> TRUE, type |-> "boolean", val |-> FALSE, next |-> i + 5]
    ELSE IF StartsAt(json, i, Codes(<<"n","u","l","l">>))
         THEN [ok |-> TRUE, type |-> "object", val |-> <<>>, next |-> i + 4]
    ELSE JsonFail

\* the members of an object from position i on, the opening brace and the
\* members before i read; members is the sequence of those read so far
RECURSIVE JsonReadMembers(_, _, _)
JsonReadMembers(json, i, members) ==
    LET k == JsonSkipSpace(json, i)
    IN  IF k > Len(json) \/ json[k] # 34 THEN JsonFail
        ELSE LET key   == JsonReadString(json, k + 1, <<>>)
                 colon == IF key.ok THEN JsonSkipSpace(json, key.next) ELSE 0
             IN  IF ~key.ok \/ colon > Len(json) \/ json[colon] # 58 THEN JsonFail
                 ELSE LET value == JsonReadScalar(json, JsonSkipSpace(json, colon + 1))
                          after == IF value.ok THEN JsonSkipSpace(json, value.next) ELSE 0
                          all   == Append(members, [key |-> key.val, type |-> value.type, val |-> value.val])
                      IN  IF ~value.ok \/ after > Len(json) THEN JsonFail
                          ELSE IF json[after] = 125
                               THEN [ok |-> TRUE, type |-> "object", val |-> all, next |-> after + 1]
                          ELSE IF json[after] = 44 THEN JsonReadMembers(json, after + 1, all)
                          ELSE JsonFail

\* JSON.parse of a scalar or of an object whose members are scalars: ok = FALSE
\* stands for the SyntaxError; kind tells an object from every other value
JsonParse(json) ==
    LET i == JsonSkipSpace(json, 1)
        v == IF i <= Len(json) /\ json[i] = 123
             THEN IF JsonSkipSpace(json, i + 1) <= Len(json) /\ json[JsonSkipSpace(json, i + 1)] = 125
                  THEN [ok |-> TRUE, type |-> "object", val |-> <<>>, next |-> JsonSkipSpace(json, i + 1) + 1]
                  ELSE JsonReadMembers(json, i + 1, <<>>)
             ELSE JsonReadScalar(json, i)
    IN  IF v.ok /\ JsonSkipSpace(json, v.next) = Len(json) + 1
        THEN [ok |-> TRUE, kind |-> IF i <= Len(json) /\ json[i] = 123 THEN "members" ELSE "scalar",
              members |-> IF i <= Len(json) /\ json[i] = 123 THEN v.val ELSE <<>>]
        ELSE [ok |-> FALSE, kind |-> "scalar", members |-> <<>>]

\* obj?.key: the last member of that name, else undefined
Member(obj, key) ==
    LET hits == { i \in 1..Len(obj.members) : obj.members[i].key = Codes(key) }
    IN  IF hits = {} THEN [type |-> "undefined", val |-> <<>>]
        ELSE LET m == obj.members[CHOOSE i \in hits : \A j \in hits : j <= i]
             IN  [type |-> m.type, val |-> m.val]

\* ------------------------------------------------------------------------
\* lib/share.ts as the repository holds it twice: with base64urlEncode and
\* base64urlDecode, and with the Unicode-safe helpers. env is the runtime:
\* "browser" (window, btoa and atob exist), "node" (no window; btoa and atob
\* exist) or "oldnode" (no window, no btoa, no atob)
\* ------------------------------------------------------------------------
NoShareState ==
    [title |-> <<>>, input |-> <<>>, fromKey |-> <<>>, toKey |-> <<>>,
     capoFret |-> 0, showCapo |-> FALSE, includeDiagrams |-> FALSE]

WindowUndefined(env) == env # "browser"

HasBtoa(env) == env # "oldnode"

\* .replace(/\+/g, "-").replace(/\//g, "_").replace(/=+$/g, "") of what btoa returned
UrlSafeOf(r) == [threw |-> r.threw, text |-> StripUrlSafe(r.text)]

base64urlEncode(str, env) ==
    IF WindowUndefined(env)
    THEN [threw |-> FALSE, text |-> StripUrlSafe(Base64OfBytes(Utf8Encode(str)))]
    ELSE UrlSafeOf(btoa(str))

\* "===".slice(start)
ThreeEqualsFrom(start) == Repeat("=", IF start >= 3 THEN 0 ELSE 3 - start)

\* the text base64urlDecode hands to the Base64 decoder
base64urlPadded(b64url) ==
    UnUrlSafe(b64url)
    \o ThreeEqualsFrom(IF Len(b64url) % 4 # 0 THEN Len(b64url) % 4 ELSE 4)

\* the binary string atob returned, as a string
BinaryStringOf(r) == [threw |-> r.threw, str |-> r.bin]

base64urlDecode(b64url, env) ==
    IF WindowUndefined(env)
    THEN [threw |-> FALSE, str |-> Utf8Decode(BufferFromBase64(base64urlPadded(b64url)))]
    ELSE BinaryStringOf(atob(base64urlPadded(b64url)))

encodeShareState(state, env) == base64urlEncode(JsonStringify(state), env)

\* the seven typeof checks on the object parsed, and the object returned;
\* kind is "state" or "null"
CheckedObject(obj) ==
    IF /\ obj.ok
       /\ Member(obj, <<"t","i","t","l","e">>).type = "string"
       /\ Member(obj, <<"i","n","p","u","t">>).type = "string"
       /\ Member(obj, <<"f","r","o","m","K","e","y">>).type = "string"
       /\ Member(obj, <<"t","o","K","e","y">>).type = "string"
       /\ Member(obj, <<"c","a","p","o","F","r","e","t">>).type = "number"
       /\ Member(obj, <<"s","h","o","w","C","a","p","o">>).type = "boolean"
       /\ Member(obj, <<"i","n","c","l","u","d","e","D","i","a","g","r","a","m","s">>).type = "boolean"
    THEN [kind |-> "state",
          state |-> [title |-> Member(obj, <<"t","i","t","l","e">>).val,
                     input |-> Member(obj, <<"i","n","p","u","t">>).val,
                     fromKey |-> Member(obj, <<"f","r","o","m","K","e","y">>).val,
                     toKey |-> Member(obj, <<"t","o","K","e","y">>).val,
                     capoFret |-> Member(obj, <<"c","a","p","o","F","r","e","t">>).val,
                     showCapo |-> Member(obj, <<"s","h","o","w","C","a","p","o">>).val,
                     includeDiagrams |-> Member(obj, <<"i","n","c","l","u","d","e","D","i","a","g","r","a","m","s">>).val]]
    ELSE [kind |-> "null", state |-> NoShareState]

\* const obj = JSON.parse(json), then the checks
CheckedShareState(json) == CheckedObject(JsonParse(json))

\* the try block catches what the Base64 decoder and JSON.parse throw
CheckedJson(json) ==
    IF json.threw THEN [kind |-> "null", state |-> NoShareState]
    ELSE CheckedShareState(json.str)

decodeShareState(token, env) == CheckedJson(base64urlDecode(token, env))

toBase64Utf8(str, env) ==
    IF HasBtoa(env) THEN btoa(Utf8Encode(str)).text ELSE Base64OfBytes(Utf8Encode(str))

\* the bytes of the binary string atob returned, decoded
Utf8StringOf(r) == [threw |-> r.threw, str |-> Utf8Decode(r.bin)]

fromBase64Utf8(b64, env) ==
    IF HasBtoa(env) THEN Utf8StringOf(atob(b64))
    ELSE [threw |-> FALSE, str |-> Utf8Decode(BufferFromBase64(b64))]

toUrlSafe(b64) == StripUrlSafe(b64)

fromUrlSafe(s) ==
    LET b64 == UnUrlSafe(s)
        pad == Len(b64) % 4
    IN  IF pad # 0 THEN b64 \o Repeat("=", 4 - pad) ELSE b64

encodeShareStateUtf8(state, env) ==
    [threw |-> FALSE, text |-> toUrlSafe(toBase64Utf8(JsonStringify(state), env))]

decodeShareStateUtf8(token, env) == CheckedJson(fromBase64Utf8(fromUrlSafe(token), env))

\* ------------------------------------------------------------------------
\* components/Transposer.tsx: the popover and its card. A state of the model
\* is a committed render; an action is one event with the renders it causes
\* ------------------------------------------------------------------------
\* useState({ open: false, sym: null, rect: null, capoForCard: 0 })
ClosedPop == [open |-> FALSE, sym |-> <<>>, capoForCard |-> 0]

\* the chords of the hotspots of a chart
HotspotChords ==
    { <<"G">>, <<"D">>, <<"E","m">>, <<"C">>, <<"G","/","B">>, <<"D","7">>, <<"F">>, <<"A","m">>,
      <<"B","b">>, <<"F","#","m">> }

\* findVoicingsFor of every chord a hotspot shows
HotspotVoicings == [sym \in HotspotChords |-> findVoicingsFor(sym).shapes]

\* const voicings = findVoicingsFor(sym)
voicings(sym) == HotspotVoicings[sym]

\* what the card renders under "mt-2", count being voicings.length: the
\* diagram of voicings[idx], the words "No diagram for this symbol.", or
\* nothing because ChordDiagram throws a TypeError when it reads the fields
\* of voicings[idx] = undefined
Shows(count, idx) ==
    IF count = 0 THEN "none"
    ELSE IF idx < count THEN "diagram"
    ELSE "error"

\* no card is mounted
NoCard == [idx |-> 0, count |-> 0, effectDue |-> FALSE, shows |-> "none"]

\* a render of the card: the state idx, voicings.length of the sym of this
\* render, whether the effect on [sym] is due after it, and what is shown
Rendered(idx, voicingsOfSym, effectDue) ==
    [idx |-> idx, count |-> Len(voicingsOfSym), effectDue |-> effectDue,
     shows |-> Shows(Len(voicingsOfSym), idx)]

\* the first render of a card: useState(0), and the effect of the mount is due
MountedCard(sym) == Rendered(0, voicings(sym), TRUE)

\* (i) => (i - 1 + voicings.length) % voicings.length
PreviousIdx(i, count) == JsRem(i - 1 + count, count)

\* (i) => (i + 1) % voicings.length
NextIdx(i, count) == JsRem(i + 1, count)

\* a render after setIdx, with the voicings of the render before
Reindexed(c, idx) == [c EXCEPT !.idx = idx, !.effectDue = FALSE, !.shows = Shows(c.count, idx)]

\* ------------------------------------------------------------------------
\* components/Transposer.tsx: the chart, the keys and the demo text. The
\* strings of the component are sequences of characters
\* ------------------------------------------------------------------------
SAMPLE_INPUT ==
    <<"C"," "," "," "," "," "," "," ","G"," "," "," "," "," "," "," ","A","m"," "," "," "," "," "," ","F","\n">>
    \o <<"T","a","k","e"," ","t","h","e","s","e"," ","c","h","o","r","d","s"," ","a","n","d"," ","m","o","v","e"," ","t","h","e","m"," ","t","o"," ","a"," ","n","e","w"," ","k","e","y","\n">>
    \o <<"C","/","E"," "," "," "," "," ","F"," "," "," "," "," "," "," "," ","G","7"," "," "," "," "," "," ","C","\n">>
    \o <<"S","u","p","p","o","r","t","s"," ","s","l","a","s","h"," ","c","h","o","r","d","s"," ","a","n","d"," ","e","x","t","e","n","s","i","o","n","s"," ","t","o","o">>

DEMO_BASE_KEY == <<"C">>

ChordRegexWords ==
    { <<"m">>, <<"m","a","j">>, <<"m","i","n">>, <<"d","i","m">>, <<"a","u","g">>,
      <<"s","u","s">>, <<"a","d","d">>, <<"#">>, <<"b">>, <<"+">>, <<"-">>, <<"u00B0">>, <<"u0394">> }

UpperNoteLetters == {"A", "B", "C", "D", "E", "F", "G"}

\* one turn of the group of CHORD_REGEX that is repeated
IsChordRegexPiece(s) ==
    \/ s \in ChordRegexWords
    \/ Len(s) = 1 /\ (IsDigit(s[1]) \/ s[1] \in UpperNoteLetters)
    \/ Len(s) \in {2, 3} /\ s[1] = "/" /\ s[2] \in UpperNoteLetters
       /\ (Len(s) = 3 => s[3] \in {"#", "b"})

RECURSIVE ChordRegexTail(_)
ChordRegexTail(s) ==
    \/ s = <<>>
    \/ \E n \in 1..Min(3, Len(s)) : IsChordRegexPiece(Take(s, n)) /\ ChordRegexTail(Drop(s, n))

\* CHORD_REGEX.test(part)
CHORD_REGEX(part) ==
    /\ part # <<>>
    /\ part[1] \in UpperNoteLetters
    /\ \/ ChordRegexTail(Tail(part))
       \/ Len(part) >= 2 /\ part[2] \in {"#", "b"} /\ ChordRegexTail(Drop(part, 2))

renderDemoForKey(k) ==
    LET prefer == preferSharpsForKey(k)
        st     == stepsFromKeys(DEMO_BASE_KEY, k).num
        parts  == SplitWhitespace(SAMPLE_INPUT)
    IN  join([i \in 1..Len(parts) |->
                IF CHORD_REGEX(parts[i]) THEN transposeChordText(parts[i], st, prefer) ELSE parts[i]])

\* the demo chart of every key of the From select
DemoCharts == [k \in { ALL_KEYS[i] : i \in 1..Len(ALL_KEYS) } |-> renderDemoForKey(k)]

\* the character of a code unit of a decoded state
CharOf(c) == IF c = 10 THEN "\n" ELSE IF c >= 32 /\ c <= 126 THEN Ascii[c - 31] ELSE "uFFFD"

Chars(codes) == [i \in 1..Len(codes) |-> CharOf(codes[i])]

\* the useState initial values of Transposer
FirstRender ==
    [title |-> <<>>, input |-> SAMPLE_INPUT, fromKey |-> <<"C">>, toKey |-> <<"G">>,
     showCapo |-> FALSE, capoFret |-> 0, isDemo |-> TRUE, mounted |-> FALSE]

\* const decoded = decodeShareState(token), with the copy of lib/share.ts of
\* the build, in the browser
DecodedLink(token, copy) ==
    IF token = <<>> THEN [kind |-> "null", state |-> NoShareState]
    ELSE IF copy = "utf8" THEN decodeShareStateUtf8(token, "browser")
    ELSE decodeShareState(token, "browser")

\* the state the deep-link effect sets: the state of the link, isDemo false
Linked(t, state) ==
    [t EXCEPT !.title = Chars(state.title),
              !.input = Chars(state.input),
              !.fromKey = Chars(state.fromKey),
              !.toKey = Chars(state.toKey),
              !.capoFret = state.capoFret,
              !.showCapo = state.showCapo,
              !.isDemo = FALSE]

\* the two effects of the first render, in the order they are declared, then
\* the render of the state they set: the deep-link effect sets the state of
\* the link; the demo effect, which still sees isDemo = true and the first
\* fromKey, calls setInput after it, and the last setInput wins
MountEffects(t, decoded) ==
    [(IF decoded.kind = "null" THEN t ELSE Linked(t, decoded.state))
        EXCEPT !.input = IF t.isDemo THEN DemoCharts[t.fromKey] ELSE @,
               !.mounted = TRUE]

\* the demo effect after a render that changed fromKey
DemoSync(t) == IF t.isDemo THEN [t EXCEPT !.input = DemoCharts[t.fromKey]] ELSE t

\* ------------------------------------------------------------------------
\* ToasterProvider (src/unnamed/part_004)
\* ------------------------------------------------------------------------
\* useState([]) and useRef(1); no timer is set
NoToasts == [toasts |-> <<>>, idRef |-> 1, timers |-> {}, asked |-> <<>>]

\* opts?.duration is undefined
NoDuration == -1

\* opts?.duration ?? 1600, taken as it is
durationUnclamped(asked) == IF asked = NoDuration THEN 1600 ELSE asked

\* Math.max(800, Math.min(60000, opts?.duration ?? 1600))
durationOf(asked) ==
    LET d == IF asked = NoDuration THEN 1600 ELSE asked
    IN  Max(800, Min(60000, d))

\* prev.filter((t) => t.id !== id)
withoutToast(prev, id) == SelectSeq(prev, LAMBDA t : t.id # id)

\* ------------------------------------------------------------------------
\* The inputs the callers are modelled to pass
\* ------------------------------------------------------------------------
StringsUpTo(alphabet, n) == UNION { [1..k -> alphabet] : k \in 0..n }

Steps == (-MaxSteps)..MaxSteps

\* the steps tried on whole texts: the small ones and the largest ones
TextSteps == { s \in Steps : s \in {-2, 0, 1, 2} \/ s = -MaxSteps }

RawAlphabet == {"C", "c", "b", "#", "H", " ", "u266D"}

TextAlphabet == {"C", "b", "#", "/", "(", ",", " ", "x"}

\* the examples of the specification and of the sample chart
Examples ==
    { <<"C","/","E">>, <<"B","b","7","/","D">>, <<"T","a","k","e">>, <<"t","a","k","e">>,
      <<"C"," ","G"," ","A","m"," ","F">>, <<"(","G",")">>, <<"C","/","E","/","G">>,
      <<"(","C","/","E",")">>, <<"A","B">>, <<"C","B","7">> }

Spellings == DOMAIN ENHARMONIC_MAP

RawNotes == Spellings \cup StringsUpTo(RawAlphabet, MaxRawLen)

Texts == StringsUpTo(TextAlphabet, MaxTextLen) \cup Examples

Symbols == { t \in Texts : \A i \in 1..Len(t) : ~IsSpace(t[i]) }

KeyNames == Spellings \cup StringsUpTo(RawAlphabet, MaxKeyLen) \cup ObjectPrototypeKeys
            \cup { <<"A","m">>, <<"f","#","m">> }

\* the characters of the symbols looked up without a known root
SymbolAlphabet == {"C", "c", "B", "b", "#", "m", "7", "H", "\n"}

\* the roots of the symbols looked up: every spelling, and some in lowercase
RootTexts == Spellings \cup { <<"a">>, <<"c","#">>, <<"e","b">>, <<"A","B">> }

\* the tails of the symbols looked up
TailTexts ==
    { <<>>, <<"m">>, <<"7">>, <<"m","7">>, <<"m","a","j","7">>, <<"s","u","s","4">>,
      <<"a","d","d","9">>, <<"m","a","j">>, <<"m","a","j","9">>, <<"m","i","n">>,
      <<"m","i","n","7">>, <<"d","i","m">>, <<"M">>, <<"M","7">>, <<"7","s","u","s","4">>,
      <<"m","7","b","5">>, <<"/","E">>, <<"m","/","G">>, <<"6">>, <<"s","u","s","2">> }

\* tails that begin with a character the root pattern takes as an accidental
AccidentalTails == { <<"b","5">>, <<"#","5">>, <<"B">> }

ChordSymbols ==
    { r \o t : r \in RootTexts, t \in TailTexts } \cup StringsUpTo(SymbolAlphabet, MaxSymbolLen)
    \cup { r \o t : r \in Spellings, t \in AccidentalTails }

\* the characters of the tails classified without a known quality
TailAlphabet == {"m", "a", "j", "7", "-"}

\* the tails classified: parseChordSymbol hands a tail over in lowercase
QualityTails ==
    { [i \in 1..Len(t) |-> toLowerCase(t[i])] : t \in TailTexts }
    \cup StringsUpTo(TailAlphabet, MaxTailLen)
    \cup { <<"m","a","j","7","s","u","s","4">>, <<"m","7","s","u","s","4">>,
           <<"m","m","a","j","7">>, <<"m","(","m","a","j","7",")">>,
           <<"s","u","s","4","a","d","d","9">>, <<"a","d","d","9","s","u","s","4">>,
           <<"m","a","d","d","9">>, <<"m","a","j","a","d","d","9">>,
           <<"7","a","d","d","9">>, <<"s","u","s","4","(","m",")">> }

\* the last capo position the advisor evaluates
LastFret == 11

Frets == 0..LastFret

AllKeys == { ALL_KEYS[i] : i \in 1..Len(ALL_KEYS) }

\* the target keys of the capo advisor: the canonical keys, the other
\* spellings and names that are no key
TargetKeys ==
    AllKeys \cup Spellings \cup StringsUpTo(RawAlphabet, 1) \cup { <<"A","m">>, <<"f","#","m">> }

\* the share states: a title, a chart of at most MaxShareLen characters with
\* a quote, a line break and a sharp sign among them, two keys and two frets
MaxShareLen == 1

ShareAlphabet == {"C", "\"", "\n", "u266F"}

ShareStates ==
    { [title |-> Codes(t), input |-> Codes(i), fromKey |-> Codes(<<"C">>), toKey |-> Codes(k),
       capoFret |-> c, showCapo |-> s, includeDiagrams |-> TRUE] :
        t \in {<<>>, <<"a">>},
        i \in StringsUpTo(ShareAlphabet, MaxShareLen),
        k \in {<<"C">>, <<"B","b">>},
        c \in {0, LastFret},
        s \in BOOLEAN }

Runtimes == {"browser", "node", "oldnode"}

\* copy is "base64url" for the file with base64urlEncode and base64urlDecode,
\* "utf8" for the file with the Unicode-safe helpers
ShareEnvs == [copy : {"base64url", "utf8"}, encode : Runtimes, decode : Runtimes]

NoShareEnv == [copy |-> "base64url", encode |-> "browser", decode |-> "browser"]

\* JSON texts that are no share state
OtherJson ==
    { Codes(<<"{","}">>),
      Codes(<<"n","u","l","l">>),
      Codes(<<"5">>),
      Codes(<<"{","\"","t","i","t","l","e","\"",":","\"","a","\"","}">>),
      Codes(<<"{","\"","t","i","t","l","e","\"">>),
      Codes(<<"{","\"","t","i","t","l","e","\"",":","\"","\"",",","\"","i","n","p","u","t","\"",":","\"","\"",",","\"","f","r","o","m","K","e","y","\"",":","\"","C","\"",",","\"","t","o","K","e","y","\"",":","\"","C","\"",",","\"","c","a","p","o","F","r","e","t","\"",":","\"","0","\"",",","\"","s","h","o","w","C","a","p","o","\"",":","t","r","u","e",",","\"","i","n","c","l","u","d","e","D","i","a","g","r","a","m","s","\"",":","f","a","l","s","e","}">>),
      Codes(<<"{","\"","t","i","t","l","e","\"",":","\"","\"",",","\"","i","n","p","u","t","\"",":","\"","\"",",","\"","f","r","o","m","K","e","y","\"",":","\"","C","\"",",","\"","t","o","K","e","y","\"",":","\"","C","\"",",","\"","c","a","p","o","F","r","e","t","\"",":","0",",","\"","s","h","o","w","C","a","p","o","\"",":","n","u","l","l",",","\"","i","n","c","l","u","d","e","D","i","a","g","r","a","m","s","\"",":","f","a","l","s","e","}">>),
      Codes(<<"{","\"","t","i","t","l","e","\"",":","\"","\"",",","\"","i","n","p","u","t","\"",":","\"","\"",",","\"","f","r","o","m","K","e","y","\"",":","\"","C","\"",",","\"","t","o","K","e","y","\"",":","\"","C","\"",",","\"","c","a","p","o","F","r","e","t","\"",":","0",",","\"","s","h","o","w","C","a","p","o","\"",":","t","r","u","e","}">>) }

\* tokens a link may carry: the tokens of those texts and texts that are no
\* Base64
ShareTokens ==
    { StripUrlSafe(Base64OfBytes(j)) : j \in OtherJson }
    \cup { <<>>, <<"A">>, <<"!","!">>, <<"=">>, <<"e","3","0","=">>, <<"_","-">> }

\* the capo slider: min={0} max={9}
MaxSliderFret == 9

\* capoForCard: 0 from the sounding chart, capoFret from the capo chart
CapoForCards == 0..MaxSliderFret

\* the charts a user types
UserTexts == { <<>>, <<"D">>, <<"E","m"," ","G">> }

\* the states of the links the page is opened with
LinkStates ==
    { [title |-> Codes(<<"a">>), input |-> Codes(<<"D","m"," ","G">>), fromKey |-> Codes(<<"G">>),
       toKey |-> Codes(<<"D">>), capoFret |-> 2, showCapo |-> TRUE, includeDiagrams |-> FALSE],
      [title |-> <<>>, input |-> Codes(<<"A">>), fromKey |-> Codes(<<"B","b">>),
       toKey |-> Codes(<<"C">>), capoFret |-> 0, showCapo |-> FALSE, includeDiagrams |-> FALSE] }

\* no state parameter, the token of a link, or a text that is no token
LinkTokens ==
    { <<>>, <<"!","!">> } \cup { encodeShareStateUtf8(l, "browser").text : l \in LinkStates }

\* the positions of the capo slider the user picks
SliderFrets == {0, 2, MaxSliderFret}

\* the toasts a run makes at most
MaxToasts == 3

ToastIds == 1..MaxToasts

\* the duration options of the callers: none, and durations below, inside
\* and above the range
ToastDurations == {NoDuration, 0, 5000, 100000}

ToastMessages == {"Copied", "Link copied"}

\* ------------------------------------------------------------------------
\* The state machine: a caller picks a function and its arguments, the
\* function runs to completion and returns
\* ------------------------------------------------------------------------
NoResult ==
    /\ pc = "call"
    /\ retStr = <<>>
    /\ retNum = 0
    /\ retNaN = FALSE
    /\ retNull = FALSE
    /\ retState = NoShareState
    /\ retParsed = [root |-> <<>>, tail |-> <<>>]
    /\ retShapes = <<>>
    /\ retSuggestions = <<>>
    /\ retQuality = ""
    /\ threw = FALSE

\* the components as constructed, no event handled yet
UiIdle ==
    /\ pop = ClosedPop
    /\ card = NoCard
    /\ transposer = FirstRender
    /\ linkToken = <<>>
    /\ userText = <<>>
    /\ toaster = NoToasts

\* no call is made
CallIdle ==
    /\ NoResult
    /\ fn = ""
    /\ argText = <<>>
    /\ argKey = <<>>
    /\ steps = 0
    /\ preferSharps = TRUE
    /\ capoFret = 0
    /\ argState = NoShareState
    /\ shareEnv = NoShareEnv

Init ==
    /\ NoResult
    /\ UiIdle
    /\ \/ /\ argState = NoShareState
          /\ shareEnv = NoShareEnv
          /\ \/ /\ fn = "transposeNote"
                /\ argText \in RawNotes
                /\ argKey = <<>>
                /\ steps \in Steps
                /\ preferSharps \in BOOLEAN
                /\ capoFret = 0
             \/ /\ fn = "transposeChordSymbol"
                /\ argText \in Symbols
                /\ argKey = <<>>
                /\ steps \in TextSteps
                /\ preferSharps \in BOOLEAN
                /\ capoFret = 0
             \/ /\ fn = "transposeChordText"
                /\ argText \in Texts
                /\ argKey = <<>>
                /\ steps \in TextSteps
                /\ preferSharps \in BOOLEAN
                /\ capoFret = 0
             \/ /\ fn = "stepsFromKeys"
                /\ argText \in KeyNames
                /\ argKey \in KeyNames
                /\ steps = 0
                /\ preferSharps = TRUE
                /\ capoFret = 0
             \/ /\ fn \in {"parseChordSymbol", "findVoicingsFor"}
                /\ argText \in ChordSymbols
                /\ argKey = <<>>
                /\ steps = 0
                /\ preferSharps = TRUE
                /\ capoFret = 0
             \/ /\ fn = "shapesKeyFor"
                /\ argText \in TargetKeys
                /\ argKey = <<>>
                /\ steps = 0
                /\ preferSharps = TRUE
                /\ capoFret \in Frets
             \/ /\ fn = "suggestCaposForTargetKey"
                /\ argText \in TargetKeys
                /\ argKey = <<>>
                /\ steps = 0
                /\ preferSharps = TRUE
                /\ capoFret = 0
             \/ /\ fn = "scoreCapo"
                /\ argText \in TargetKeys
                /\ argKey = <<>>
                /\ steps = 0
                /\ preferSharps = TRUE
                /\ capoFret \in Frets
             \/ /\ fn = "coarseQuality"
                /\ argText \in QualityTails
                /\ argKey = <<>>
                /\ steps = 0
                /\ preferSharps = TRUE
                /\ capoFret = 0
       \/ /\ fn = "encodeShareState"
          /\ argState \in ShareStates
          /\ shareEnv \in ShareEnvs
          /\ argText = <<>>
          /\ argKey = <<>>
          /\ steps = 0
          /\ preferSharps = TRUE
          /\ capoFret = 0
       \/ /\ fn = "decodeShareState"
          /\ argState = NoShareState
          /\ shareEnv \in { e \in ShareEnvs : e.encode = e.decode }
          /\ argText \in ShareTokens
          /\ argKey = <<>>
          /\ steps = 0
          /\ preferSharps = TRUE
          /\ capoFret = 0

Returns(str) ==
    /\ pc' = "return"
    /\ retStr' = str
    /\ UNCHANGED <<args, uiVars, retState, retQuality, retSuggestions, retNum, retNaN, retNull, retParsed, retShapes, threw>>

TransposeNote ==
    /\ pc = "call" /\ fn = "transposeNote"
    /\ Returns(transposeNote(argText, steps, preferSharps))

TransposeChordSymbol ==
    /\ pc = "call" /\ fn = "transposeChordSymbol"
    /\ Returns(transposeChordSymbol(argText, steps, preferSharps))

TransposeChordText ==
    /\ pc = "call" /\ fn = "transposeChordText"
    /\ Returns(transposeChordText(argText, steps, preferSharps))

\* the round trip: the text returned is transposed by -steps, with sharps preferred
TransposeBack ==
    /\ pc = "return" /\ fn = "transposeChordText" /\ preferSharps
    /\ pc' = "back"
    /\ retStr' = transposeChordText(retStr, -steps, TRUE)
    /\ UNCHANGED <<args, uiVars, retState, retQuality, retSuggestions, retNum, retNaN, retNull, retParsed, retShapes, threw>>

StepsFromKeys ==
    /\ pc = "call" /\ fn = "stepsFromKeys"
    /\ LET r == stepsFromKeys(argText, argKey)
       IN  /\ retNum' = r.num
           /\ retNaN' = r.nan
    /\ pc' = "return"
    /\ UNCHANGED <<args, uiVars, retState, retQuality, retSuggestions, retStr, retNull, retParsed, retShapes, threw>>

ParseChordSymbol ==
    /\ pc = "call" /\ fn = "parseChordSymbol"
    /\ LET r == parseChordSymbol(argText)
       IN  /\ threw' = (r.kind = "throw")
           /\ retNull' = (r.kind = "null")
           /\ retParsed' = [root |-> r.root, tail |-> r.tail]
    /\ pc' = "return"
    /\ UNCHANGED <<args, uiVars, retState, retQuality, retSuggestions, retStr, retNum, retNaN, retShapes>>

FindVoicingsFor ==
    /\ pc = "call" /\ fn = "findVoicingsFor"
    /\ LET r == findVoicingsFor(argText)
       IN  /\ threw' = r.threw
           /\ retShapes' = r.shapes
    /\ pc' = "return"
    /\ UNCHANGED <<args, uiVars, retState, retQuality, retSuggestions, retStr, retNum, retNaN, retNull, retParsed>>

ShapesKeyFor ==
    /\ pc = "call" /\ fn = "shapesKeyFor"
    /\ Returns(shapesKeyFor(argText, capoFret))

SuggestCaposForTargetKey ==
    /\ pc = "call" /\ fn = "suggestCaposForTargetKey"
    /\ retSuggestions' = suggestCaposForTargetKey(argText)
    /\ pc' = "return"
    /\ UNCHANGED <<args, uiVars, retState, retQuality, retStr, retNum, retNaN, retNull, retParsed, retShapes, threw>>

CoarseQuality ==
    /\ pc = "call" /\ fn = "coarseQuality"
    /\ retQuality' = coarseQuality(argText)
    /\ pc' = "return"
    /\ UNCHANGED <<args, uiVars, retState, retStr, retNum, retNaN, retNull, retParsed, retShapes, retSuggestions, threw>>

\* scoreCapo(shapesKey, capoFret); retNum is the score in half points
ScoreCapo ==
    /\ pc = "call" /\ fn = "scoreCapo"
    /\ retNum' = scoreCapo(argText, capoFret)
    /\ pc' = "return"
    /\ UNCHANGED <<args, uiVars, retState, retQuality, retStr, retNaN, retNull, retParsed, retShapes, retSuggestions, threw>>

\* the call ends with the token r.text, or with the exception of btoa
Encoded(r) ==
    /\ threw' = r.threw
    /\ retStr' = r.text
    /\ pc' = IF r.threw THEN "return" ELSE "encoded"
    /\ UNCHANGED <<args, uiVars, retState, retQuality, retSuggestions, retNum, retNaN, retNull, retParsed, retShapes>>

\* encodeShareState(state) in the runtime that builds the link
EncodeShareState ==
    /\ pc = "call" /\ fn = "encodeShareState"
    /\ Encoded(IF shareEnv.copy = "utf8"
               THEN encodeShareStateUtf8(argState, shareEnv.encode)
               ELSE encodeShareState(argState, shareEnv.encode))

\* the call returns the state r.state, or null
Decoded(r) ==
    /\ retNull' = (r.kind = "null")
    /\ retState' = r.state
    /\ pc' = "return"
    /\ UNCHANGED <<args, uiVars, retQuality, retSuggestions, retStr, retNum, retNaN, retParsed, retShapes, threw>>

\* the token a call of decodeShareState gets: the token of the link, or the
\* token encodeShareState returned
TokenToDecode == IF pc = "encoded" THEN retStr ELSE argText

\* decodeShareState(token) in the runtime that opens the link
DecodeShareState ==
    /\ \/ pc = "call" /\ fn = "decodeShareState"
       \/ pc = "encoded"
    /\ Decoded(IF shareEnv.copy = "utf8"
               THEN decodeShareStateUtf8(TokenToDecode, shareEnv.decode)
               ELSE decodeShareState(TokenToDecode, shareEnv.decode))

Next ==
    \/ TransposeNote
    \/ TransposeChordSymbol
    \/ TransposeChordText
    \/ TransposeBack
    \/ StepsFromKeys
    \/ ParseChordSymbol
    \/ FindVoicingsFor
    \/ ShapesKeyFor
    \/ SuggestCaposForTargetKey
    \/ ScoreCapo
    \/ CoarseQuality
    \/ EncodeShareState
    \/ DecodeShareState

Spec == Init /\ [][Next]_vars

\* ------------------------------------------------------------------------
\* The popover of the Transposer: pointer and keyboard events on the
\* hotspots and on the card
\* ------------------------------------------------------------------------
InitPopover ==
    /\ CallIdle
    /\ UiIdle

\* the state of the Transposer outside the popover
chartVars == <<transposer, linkToken, userText>>

\* a pointer click on a hotspot. With a popover open the click first reaches
\* onDocClick (a capture listener of the document), the popover closes and
\* that render is committed before the hotspot's onClick runs, so the card
\* is mounted anew
ChordClick ==
    /\ card.shows # "error" /\ ~card.effectDue
    /\ \E sym \in HotspotChords, capo \in CapoForCards :
          /\ pop' = [open |-> TRUE, sym |-> sym, capoForCard |-> capo]
          /\ card' = MountedCard(sym)
    /\ UNCHANGED <<callVars, toaster, chartVars>>

\* Enter or Space on a focused hotspot: onKeyDown calls click() inside the
\* key event, onDocClick's setPop and onChordClick's setPop are one batch, the
\* last one wins, and a card that is mounted stays mounted with a new sym
ChordKeyDown ==
    /\ card.shows # "error" /\ ~card.effectDue
    /\ \E sym \in HotspotChords, capo \in CapoForCards :
          /\ pop' = [open |-> TRUE, sym |-> sym, capoForCard |-> capo]
          /\ card' = Rendered(IF pop.open THEN card.idx ELSE 0, voicings(sym),
                              ~pop.open \/ sym # pop.sym)
    /\ UNCHANGED <<callVars, toaster, chartVars>>

\* useEffect(() => setIdx(0), [sym]), after the render that changed sym
CardEffect ==
    /\ pop.open /\ card.shows # "error" /\ card.effectDue
    /\ card' = Reindexed(card, 0)
    /\ UNCHANGED <<callVars, toaster, chartVars, pop>>

\* has && setIdx(...)
PreviousVoicing ==
    /\ pop.open /\ card.shows # "error" /\ ~card.effectDue
    /\ card.count > 0
    /\ card' = Reindexed(card, PreviousIdx(card.idx, card.count))
    /\ UNCHANGED <<callVars, toaster, chartVars, pop>>

NextVoicing ==
    /\ pop.open /\ card.shows # "error" /\ ~card.effectDue
    /\ card.count > 0
    /\ card' = Reindexed(card, NextIdx(card.idx, card.count))
    /\ UNCHANGED <<callVars, toaster, chartVars, pop>>

\* onClose: the close button, Escape, or a click outside the popover
ClosePopover ==
    /\ pop.open /\ card.shows # "error" /\ ~card.effectDue
    /\ pop' = ClosedPop
    /\ card' = NoCard
    /\ UNCHANGED <<callVars, toaster, chartVars>>

NextPopover ==
    \/ ChordClick
    \/ ChordKeyDown
    \/ CardEffect
    \/ PreviousVoicing
    \/ NextVoicing
    \/ ClosePopover

SpecPopover == InitPopover /\ [][NextPopover]_vars

\* ------------------------------------------------------------------------
\* The chart of the Transposer: the page is opened, with or without a link,
\* and the user works the controls
\* ------------------------------------------------------------------------
InitDemo ==
    /\ NoResult
    /\ fn = ""
    /\ argText = <<>>
    /\ argKey = <<>>
    /\ steps = 0
    /\ preferSharps = TRUE
    /\ capoFret = 0
    /\ argState = NoShareState
    /\ shareEnv \in { e \in ShareEnvs : e.encode = "browser" /\ e.decode = "browser" }
    /\ pop = ClosedPop
    /\ card = NoCard
    /\ transposer = FirstRender
    /\ linkToken \in LinkTokens
    /\ userText = <<>>
    /\ toaster = NoToasts

\* the effects of the first render, decoded being what decodeShareState returned
MountWith(decoded) ==
    /\ transposer' = MountEffects(transposer, decoded)
    /\ userText' = IF decoded.kind = "null" THEN userText ELSE Chars(decoded.state.input)
    /\ UNCHANGED <<callVars, toaster, pop, card, linkToken>>

Mount ==
    /\ ~transposer.mounted
    /\ MountWith(DecodedLink(linkToken, shareEnv.copy))

\* onChange of the From select
SetFromKey ==
    /\ transposer.mounted
    /\ \E k \in AllKeys :
          /\ k # transposer.fromKey
          /\ transposer' = DemoSync([transposer EXCEPT !.fromKey = k])
    /\ UNCHANGED <<callVars, toaster, pop, card, linkToken, userText>>

\* onChange of the To select
SetToKey ==
    /\ transposer.mounted
    /\ \E k \in AllKeys :
          /\ k # transposer.toKey
          /\ transposer' = [transposer EXCEPT !.toKey = k]
    /\ UNCHANGED <<callVars, toaster, pop, card, linkToken, userText>>

onSwap ==
    /\ transposer.mounted
    /\ transposer.fromKey # transposer.toKey
    /\ transposer' = DemoSync([transposer EXCEPT !.fromKey = transposer.toKey,
                                                 !.toKey = transposer.fromKey])
    /\ UNCHANGED <<callVars, toaster, pop, card, linkToken, userText>>

\* onChange of the check box
SetShowCapo ==
    /\ transposer.mounted
    /\ transposer' = [transposer EXCEPT !.showCapo = ~transposer.showCapo]
    /\ UNCHANGED <<callVars, toaster, pop, card, linkToken, userText>>

\* onChange of the slider, which is rendered with showCapo
SetCapoFret ==
    /\ transposer.mounted /\ transposer.showCapo
    /\ \E n \in SliderFrets :
          /\ n # transposer.capoFret
          /\ transposer' = [transposer EXCEPT !.capoFret = n]
    /\ UNCHANGED <<callVars, toaster, pop, card, linkToken, userText>>

\* onChange of the textarea
EditInput ==
    /\ transposer.mounted
    /\ \E text \in UserTexts :
          /\ text # transposer.input
          /\ transposer' = [transposer EXCEPT !.input = text, !.isDemo = FALSE]
          /\ userText' = text
    /\ UNCHANGED <<callVars, toaster, pop, card, linkToken>>

NextDemo ==
    \/ Mount
    \/ SetFromKey
    \/ SetToKey
    \/ onSwap
    \/ SetShowCapo
    \/ SetCapoFret
    \/ EditInput

SpecDemo == InitDemo /\ [][NextDemo]_vars

\* ------------------------------------------------------------------------
\* The toaster: callers make toasts, the timers of the toasts fire
\* ------------------------------------------------------------------------
InitToast ==
    /\ CallIdle
    /\ UiIdle

\* toast(msg, opts)
Toast ==
    /\ toaster.idRef <= MaxToasts
    /\ \E msg \in ToastMessages, asked \in ToastDurations :
          toaster' = [toasts |-> Append(toaster.toasts,
                                        [id |-> toaster.idRef, msg |-> msg, duration |-> durationOf(asked)]),
                      idRef  |-> toaster.idRef + 1,
                      timers |-> toaster.timers \cup {toaster.idRef},
                      asked  |-> Append(toaster.asked, asked)]
    /\ UNCHANGED <<callVars, pop, card, transposer, linkToken, userText>>

\* the callback of the window.setTimeout of toast number id
TimerFires(id) ==
    /\ id \in toaster.timers
    /\ toaster' = [toaster EXCEPT !.toasts = withoutToast(toaster.toasts, id),
                                  !.timers = toaster.timers \ {id}]
    /\ UNCHANGED <<callVars, pop, card, transposer, linkToken, userText>>

Timer == \E id \in ToastIds : TimerFires(id)

NextToast ==
    \/ Toast
    \/ Timer

SpecToast == InitToast /\ [][NextToast]_vars

\* the event loop runs the callback of every timer that was set
SpecToastFair == SpecToast /\ \A id \in ToastIds : WF_vars(TimerFires(id))

\* ------------------------------------------------------------------------
\* Properties
\* ------------------------------------------------------------------------
Returned(f) == pc = "return" /\ fn = f

\* the pitch class a note spelling stands for
PitchClass(n) == ENHARMONIC_MAP[n]

\* C1: for a recognized spelling n, any steps s and either preference,
\* transposeNote returns a recognized spelling whose pitch class is
\* (pitchClass(n) + s) mod 12, taken in 0..11
C1_PitchClassArithmetic ==
    (Returned("transposeNote") /\ argText \in Spellings) =>
        /\ retStr \in Spellings
        /\ PitchClass(retStr) = (PitchClass(argText) + steps) % 12

\* a recognized note taken down by more than an octave, below C
C1_Witness ==
    /\ Returned("transposeNote")
    /\ argText \in Spellings
    /\ steps < -12
    /\ PitchClass(argText) + steps + 12 < 0
    /\ retStr \in Spellings

\* C9: for a recognized note transposeNote returns exactly the entry of the
\* sharp table (preferSharps) or of the flat table (otherwise) at the resulting
\* pitch class: no flat with preferSharps, no sharp without, never B#, E#, Fb, Cb
C9_SpellingChoice ==
    (Returned("transposeNote") /\ argText \in Spellings) =>
        LET p == (PitchClass(argText) + steps) % 12
        IN  /\ retStr = (IF preferSharps THEN SHARPS ELSE FLATS)[p + 1]
            /\ preferSharps => ~includes(retStr, "b")
            /\ ~preferSharps => ~includes(retStr, "#")
            /\ retStr \notin { <<"B","#">>, <<"E","#">>, <<"F","b">>, <<"C","b">> }

\* a rare spelling transposed with flats preferred onto a black key
C9_Witness ==
    /\ Returned("transposeNote")
    /\ argText = <<"C","b">>
    /\ ~preferSharps
    /\ retStr = <<"B","b">>

UpperRoots == {"A","B","C","D","E","F","G"}

LowerLetters == { LOWER[i] : i \in 1..26 }

HasPunct(tok) == \E i \in 1..Len(tok) : IsPunct(tok[i])

RECURSIVE Flatten(_)
Flatten(seqs) == IF seqs = <<>> THEN <<>> ELSE Head(seqs) \o Flatten(Tail(seqs))

\* the white-space runs of a text and, between them, the punctuation
\* characters and the pieces they separate
PiecesOf(text) ==
    LET toks == SplitWhitespace(text)
    IN  Flatten([i \in 1..Len(toks) |-> SplitPunct(toks[i])])

\* the pitch class of the root of a slash-free chord part, -1 when it has none
RootPitch(part) ==
    LET m == CHORD_RE(part)
    IN  IF m.matched /\ normNote(m.root) # Null THEN PitchClass(normNote(m.root)) ELSE -1

TailOf(part) == CHORD_RE(part).tail

\* b is chord a up to the spelling of its root and of its bass
SameChord(a, b) ==
    LET as == SplitSlash(a)
        bs == SplitSlash(b)
    IN  /\ Len(as) = Len(bs)
        /\ \A k \in 1..Len(as) :
              IF RootPitch(as[k]) >= 0
              THEN RootPitch(bs[k]) = RootPitch(as[k]) /\ TailOf(bs[k]) = TailOf(as[k])
              ELSE bs[k] = as[k]

\* C2: transposing a text by s and then by -s, sharps preferred, gives a text
\* with the same tokens in which every chord token has the pitch classes (root
\* and slash bass) of the corresponding chord token of the original
C2_RoundTrip ==
    (pc = "back") =>
        LET ps == PiecesOf(argText)
            qs == PiecesOf(retStr)
        IN  /\ Len(qs) = Len(ps)
            /\ \A i \in 1..Len(ps) :
                  IF isChordLike(ps[i]) THEN SameChord(ps[i], qs[i]) ELSE qs[i] = ps[i]

\* C3 as stated: split and join is the identity, and transposeChordText keeps
\* every white-space span and every token that is not chord-like unchanged in
\* its position
C3_PassThroughOfNonChordTokens ==
    Returned("transposeChordText") =>
        LET ts == SplitWhitespace(argText)
            rs == SplitWhitespace(retStr)
        IN  /\ join(ts) = argText
            /\ Len(rs) = Len(ts)
            /\ \A i \in 1..Len(ts) : ~isChordLike(ts[i]) => rs[i] = ts[i]

\* the pieces maybeTransposeToken tests: the parts between ( ) [ ] , | of a
\* token that has one of them and no '/', else the token itself
TestedPieces(tok) == IF HasPunct(tok) /\ ~includes(tok, "/") THEN SplitPunct(tok) ELSE <<tok>>

HasChordPiece(tok) == \E k \in 1..Len(TestedPieces(tok)) : isChordLike(TestedPieces(tok)[k])

\* C3 amended: split and join is the identity, and transposeChordText keeps
\* every white-space span and every token none of whose tested pieces is
\* chord-like unchanged in its position; a text without a chord-like piece is
\* returned unchanged
C3_PassThrough ==
    Returned("transposeChordText") =>
        LET ts == SplitWhitespace(argText)
            rs == SplitWhitespace(retStr)
        IN  /\ join(ts) = argText
            /\ Len(rs) = Len(ts)
            /\ \A i \in 1..Len(ts) : ~HasChordPiece(ts[i]) => rs[i] = ts[i]
            /\ (\A i \in 1..Len(ts) : ~HasChordPiece(ts[i])) => retStr = argText

\* a text with white space on both sides of a lyric and a chord that moved
C3_Witness ==
    /\ Returned("transposeChordText")
    /\ argText = <<" ", "x", " ", "C">>
    /\ steps = 1
    /\ retStr = <<" ", "x", " ", "C", "#">>

\* C4: a chord-like symbol with '/' comes back as its '/'-separated parts,
\* each transposed by the same steps, rejoined with '/': as many parts as the
\* input has, none dropped ("C/E" by -2 with flats is "Bb/D")
C4_SlashChords ==
    (Returned("transposeChordSymbol") /\ isChordLike(argText) /\ includes(argText, "/")) =>
        LET ps == SplitSlash(argText)
            qs == SplitSlash(retStr)
        IN  /\ Len(qs) = Len(ps)
            /\ \A k \in 1..Len(ps) : qs[k] = transposeChordSymbol(ps[k], steps, preferSharps)
            /\ (argText = <<"C","/","E">> /\ steps = -2 /\ ~preferSharps)
                  => retStr = <<"B","b","/","D">>

\* a chord symbol without '/': an uppercase root and a chord-like tail
IsPlainChord(s) == s # <<>> /\ s[1] \in UpperRoots /\ ~includes(s, "/") /\ isChordLike(s)

\* a plain chord, or a root chord and a bass joined by one '/'
IsChordSymbol(s) ==
    \/ IsPlainChord(s)
    \/ /\ Len(SplitSlash(s)) = 2
       /\ IsPlainChord(SplitSlash(s)[1])
       /\ IsPlainChord(SplitSlash(s)[2])

\* a token made of chord symbols wrapped in or separated by ( ) [ ] , |
IsPunctuatedChords(t) ==
    LET ps == SplitPunct(t)
    IN  /\ HasPunct(t)
        /\ \A i \in 1..Len(t) : ~IsSpace(t[i])
        /\ \A k \in 1..Len(ps) : ps[k] = <<>> \/ HasPunct(ps[k]) \/ IsChordSymbol(ps[k])
        /\ \E k \in 1..Len(ps) : IsChordSymbol(ps[k])

\* C5: in a token made of chord symbols (plain or slash) and punctuation,
\* transposeChordText transposes every chord symbol and leaves every
\* punctuation character as it is, in the same order
C5_PunctuationAdjacentChords ==
    (Returned("transposeChordText") /\ IsPunctuatedChords(argText)) =>
        LET ps == SplitPunct(argText)
        IN  retStr = join([k \in 1..Len(ps) |->
                             IF IsChordSymbol(ps[k])
                             THEN transposeChordSymbol(ps[k], steps, preferSharps)
                             ELSE ps[k]])

\* C6: a token is chord-like only if its first character is an uppercase
\* letter A-G; a word that starts with a lowercase letter is not a chord and
\* transposeChordText returns it unchanged; "Bb7/D" is chord-like, "Take" is not
C6_CaseSensitiveRoot ==
    Returned("transposeChordText") =>
        LET ts == SplitWhitespace(argText)
            rs == SplitWhitespace(retStr)
        IN  /\ \A i \in 1..Len(ts) : isChordLike(ts[i]) => ts[i][1] \in UpperRoots
            /\ \A i \in 1..Len(ts) :
                  (ts[i] # <<>> /\ ts[i][1] \in LowerLetters /\ ~HasPunct(ts[i]))
                      => (i <= Len(rs) /\ rs[i] = ts[i])
            /\ isChordLike(<<"B","b","7","/","D">>)
            /\ ~isChordLike(<<"T","a","k","e">>)

\* C8: transposeNote returns a raw string that does not normalize to a
\* recognized note unchanged, transposeChordSymbol returns a symbol that does
\* not start with a root letter unchanged, and neither throws
C8_GracefulFailure ==
    /\ (Returned("transposeNote") /\ normNote(argText) = Null)
          => (retStr = argText /\ ~threw)
    /\ (Returned("transposeChordSymbol") /\ (argText = <<>> \/ argText[1] \notin UpperRoots))
          => (retStr = argText /\ ~threw)

\* the pitch class a key name counts as: that of the spelling it is or
\* normalizes to, 0 when there is none
KeyPitch(k) ==
    IF k \in Spellings THEN PitchClass(k)
    ELSE IF normNote(k) # Null THEN PitchClass(normNote(k))
    ELSE 0

\* C7: parseChordSymbol returns null or a parsed value and findVoicingsFor
\* returns a sequence of shapes, whatever the input string: neither throws
C7_VoicingLookupNeverRaises ==
    (Returned("parseChordSymbol") \/ Returned("findVoicingsFor")) => ~threw

\* C10: stepsFromKeys(from, to) is pitchClass(to) - pitchClass(from), not
\* normalized, an unrecognized key name counting as 0: it lies in -11..11 and
\* stepsFromKeys(a, b) = -stepsFromKeys(b, a)
C10_StepsFromKeys ==
    Returned("stepsFromKeys") =>
        /\ ~retNaN
        /\ retNum = KeyPitch(argKey) - KeyPitch(argText)
        /\ retNum \in -11..11
        /\ LET back == stepsFromKeys(argKey, argText)
           IN  ~back.nan /\ retNum = -back.num

\* ------------------------------------------------------------------------
\* Properties of the capo advisor
\* ------------------------------------------------------------------------
\* the canonical keys spelled with sharps: the sharp keys and the neutral key C
SharpSpelledKeys ==
    { <<"G">>, <<"D">>, <<"A">>, <<"E">>, <<"B">>, <<"F","#">>, <<"C","#">>, <<"C">> }

\* C11: for every canonical key k and capo fret f in 0..11, shapesKeyFor(k, f)
\* has pitch class (pitchClass(k) - f) mod 12, raising it by f semitones gives
\* the pitch class of k back, and it is the entry of the sharp table when k
\* is a sharp key or neutral and the entry of the flat table when k is a flat
\* key; shapesKeyFor("D", 2) = "C"
C11_ShapesKey ==
    (Returned("shapesKeyFor") /\ argText \in AllKeys) =>
        LET pcs == (PitchClass(argText) - capoFret) % 12
        IN  /\ retStr \in Spellings
            /\ PitchClass(retStr) = pcs
            /\ PitchClass(transposeNote(retStr, capoFret, TRUE)) = PitchClass(argText)
            /\ retStr = IF argText \in SharpSpelledKeys THEN SHARPS[pcs + 1] ELSE FLATS[pcs + 1]
            /\ (argText = <<"D">> /\ capoFret = 2) => retStr = <<"C">>

\* a flat key whose shapes key at a capo fret is spelled with a flat
C11_Witness ==
    /\ Returned("shapesKeyFor")
    /\ argText = <<"F">> /\ capoFret = 7
    /\ retStr = <<"B","b">>

\* the score the advisor gives a capo fret for the target key of the call
ScoreAt(f) == scoreCapo(shapesKeyFor(argText, f), f)

ReturnedFrets == { retSuggestions[i].capoFret : i \in 1..Len(retSuggestions) }

\* C12: for every target key, canonical or not, suggestCaposForTargetKey
\* returns exactly 5 suggestions with pairwise distinct capo frets in 0..11,
\* each with the shapes key and the score of its fret, in non-increasing
\* order of score, and none of the 7 frets left out scores higher than the
\* last suggestion returned
C12_TopFive ==
    Returned("suggestCaposForTargetKey") =>
        /\ Len(retSuggestions) = 5
        /\ \A i \in 1..5 :
              /\ retSuggestions[i].capoFret \in 0..11
              /\ retSuggestions[i].shapesKey = shapesKeyFor(argText, retSuggestions[i].capoFret)
              /\ retSuggestions[i].score = ScoreAt(retSuggestions[i].capoFret)
        /\ \A i, j \in 1..5 : i # j => retSuggestions[i].capoFret # retSuggestions[j].capoFret
        /\ \A i \in 1..4 : retSuggestions[i].score >= retSuggestions[i + 1].score
        /\ Cardinality((0..11) \ ReturnedFrets) = 7
        /\ \A f \in (0..11) \ ReturnedFrets : ScoreAt(f) <= retSuggestions[5].score

\* a canonical key whose best five frets are not the first five
C12_Witness ==
    /\ Returned("suggestCaposForTargetKey")
    /\ argText = <<"B","b">>
    /\ Len(retSuggestions) = 5
    /\ retSuggestions[1].capoFret = 1
    /\ retSuggestions[1].shapesKey = <<"A">>
    /\ \E i \in 1..5 : retSuggestions[i].capoFret > 5

\* fret f is ranked before fret g: a higher score, or the same score at a lower fret
RankedBefore(f, g) ==
    \/ ScoreAt(f) > ScoreAt(g)
    \/ ScoreAt(f) = ScoreAt(g) /\ f < g

\* C13: whenever two of the evaluated capo frets have the same score, the
\* lower fret comes first in the result of suggestCaposForTargetKey: it is
\* ahead of the other when both are returned, and it is the one returned
\* when only one is; the i-th suggestion is therefore the fret with exactly
\* i - 1 frets ranked before it, so the target key determines the output
C13_TieBreaking ==
    Returned("suggestCaposForTargetKey") =>
        /\ \A i, j \in 1..Len(retSuggestions) :
              (/\ retSuggestions[i].score = retSuggestions[j].score
               /\ retSuggestions[i].capoFret < retSuggestions[j].capoFret) => i < j
        /\ \A i \in 1..Len(retSuggestions) : \A f \in (0..11) \ ReturnedFrets :
              ScoreAt(f) = retSuggestions[i].score => retSuggestions[i].capoFret < f
        /\ \A i \in 1..Len(retSuggestions) :
              Cardinality({ f \in 0..11 : RankedBefore(f, retSuggestions[i].capoFret) }) = i - 1

\* target key C: the E shapes at fret 8 and the D shapes at fret 10 have the
\* same score, and fret 8 is returned ahead of fret 10
C13_Witness ==
    /\ Returned("suggestCaposForTargetKey")
    /\ argText = <<"C">>
    /\ \E i \in 1..(Len(retSuggestions) - 1) :
          /\ retSuggestions[i].capoFret = 8
          /\ retSuggestions[i + 1].capoFret = 10
          /\ retSuggestions[i].score = retSuggestions[i + 1].score

\* C14: for a target key that is one of the open-shape keys C, G, D, A, E,
\* the first suggestion of suggestCaposForTargetKey has capo fret 0 and the
\* target key itself as shapes key
C14_OpenKeyNeedsNoCapo ==
    (Returned("suggestCaposForTargetKey") /\ argText \in { <<"C">>, <<"G">>, <<"D">>, <<"A">>, <<"E">> }) =>
        /\ Len(retSuggestions) >= 1
        /\ retSuggestions[1].capoFret = 0
        /\ retSuggestions[1].shapesKey = argText

\* target key E, the open-shape key with the smallest bias, is suggested
\* without a capo first, ahead of an open shape with a capo
C14_Witness ==
    /\ Returned("suggestCaposForTargetKey")
    /\ argText = <<"E">>
    /\ Len(retSuggestions) = 5
    /\ retSuggestions[1].capoFret = 0
    /\ retSuggestions[1].shapesKey = <<"E">>
    /\ retSuggestions[2].capoFret > 0
    /\ retSuggestions[2].shapesKey \in OPEN_SHAPE_KEYS

\* the comfort bonus within a returned score, in half points: the score less
\* the open-shape bonus and the bias of the shapes key
ReturnedBonus ==
    retNum - (IF argText \in { <<"C">>, <<"G">>, <<"D">>, <<"A">>, <<"E">> } THEN 200 ELSE 0)
           - (IF argText = <<"C">> THEN 4
              ELSE IF argText = <<"D">> THEN 3
              ELSE IF argText = <<"A">> THEN 2
              ELSE IF argText = <<"E">> THEN 1
              ELSE 5)

\* C15 as stated: the comfort bonus of scoreCapo is 20 - 2*f for frets 0..5,
\* positive, smaller than 10 and strictly decreasing over frets 6, 7, 8 and
\* 9, 0 for frets 10 and 11, and never negative
C15_ComfortBonus ==
    Returned("scoreCapo") =>
        /\ capoFret \in 0..5 => ReturnedBonus = 2 * (20 - 2 * capoFret)
        /\ capoFret \in 6..9 =>
              /\ ReturnedBonus > 0
              /\ ReturnedBonus < 2 * 10
              /\ retNum < scoreCapo(argText, capoFret - 1)
        /\ capoFret \in 10..11 => ReturnedBonus = 0
        /\ ReturnedBonus >= 0

\* C15 amended: the comfort bonus of scoreCapo is 20 - 2*f for frets 0..5; it
\* is 10 - 3*(f - 5), that is 7, 4 and 1, for frets 6, 7 and 8, positive,
\* smaller than 10 and strictly decreasing; it is 0 for frets 9, 10 and 11;
\* it is never negative
C15_ComfortBonusAmended ==
    Returned("scoreCapo") =>
        /\ capoFret \in 0..5 => ReturnedBonus = 2 * (20 - 2 * capoFret)
        /\ capoFret \in 6..8 =>
              /\ ReturnedBonus = 2 * (10 - 3 * (capoFret - 5))
              /\ ReturnedBonus > 0
              /\ ReturnedBonus < 2 * 10
              /\ retNum < scoreCapo(argText, capoFret - 1)
        /\ capoFret \in 9..11 => ReturnedBonus = 0
        /\ ReturnedBonus >= 0

\* fret 9 scored with no comfort bonus at all
C15_Witness ==
    /\ Returned("scoreCapo")
    /\ capoFret = 9
    /\ argText = <<"G">>
    /\ retNum = 205
    /\ ReturnedBonus = 0

\* ------------------------------------------------------------------------
\* Properties of the voicing catalog
\* ------------------------------------------------------------------------
\* the root a symbol is spelled with: its first letter and the accidental after it
SymbolRoot(sym) ==
    IF Len(sym) >= 2 /\ sym[2] \in {"#", "b"} THEN Take(sym, 2) ELSE Take(sym, 1)

\* a symbol made of a recognized root and one of the tails looked up
IsRootedSymbol(sym) ==
    /\ sym # <<>>
    /\ SymbolRoot(sym) \in Spellings
    /\ Drop(sym, Len(SymbolRoot(sym))) \in TailTexts

\* the base frets of the returned shapes of a family
FretsOfFamily(family) ==
    { retShapes[i].baseFret : i \in { j \in 1..Len(retShapes) : retShapes[j].family = family } }

\* the base frets claimed for a shape family whose open string has pitch class open
ClaimedFrets(root, open) ==
    LET d       == (PitchClass(root) - open) % 12
        primary == IF d = 0 THEN 12 ELSE d
    IN  IF primary <= 5 THEN {primary, primary + 12} ELSE {primary}

\* C16: for a symbol of any of the 12 roots, findVoicingsFor returns an
\* E-shape barre at d_E = (pitchClass(root) - pitchClass(E)) mod 12, or at 12
\* when d_E = 0, and an A-shape barre placed the same way from A; a second
\* barre of the family is returned at primary + 12 exactly when primary <= 5;
\* every barre base fret is in 1..17 and congruent mod 12 to the distance of
\* the root from the open string of its shape
C16_BarrePlacement ==
    (Returned("findVoicingsFor") /\ IsRootedSymbol(argText)) =>
        LET root == SymbolRoot(argText)
        IN  /\ ~threw
            /\ FretsOfFamily("barre-e") = ClaimedFrets(root, 4)
            /\ FretsOfFamily("barre-a") = ClaimedFrets(root, 9)
            /\ \A i \in 1..Len(retShapes) :
                  /\ retShapes[i].family \in {"open", "barre-e", "barre-a"}
                  /\ retShapes[i].family = "barre-e" =>
                        /\ retShapes[i].baseFret \in 1..17
                        /\ (retShapes[i].baseFret - (PitchClass(root) - 4)) % 12 = 0
                  /\ retShapes[i].family = "barre-a" =>
                        /\ retShapes[i].baseFret \in 1..17
                        /\ (retShapes[i].baseFret - (PitchClass(root) - 9)) % 12 = 0
            /\ \A i, j \in 1..Len(retShapes) :
                  (/\ i # j
                   /\ retShapes[i].family = retShapes[j].family
                   /\ retShapes[i].family # "open") => retShapes[i].baseFret # retShapes[j].baseFret

\* root E lies on the open E string: its E-shape barre is at fret 12, with no
\* second E-shape, and its A-shape barre at fret 7
C16_Witness ==
    /\ Returned("findVoicingsFor")
    /\ argText = <<"E","7">>
    /\ FretsOfFamily("barre-e") = {12}
    /\ FretsOfFamily("barre-a") = {7}

\* C17: for every symbol, no two shapes returned by findVoicingsFor have the
\* same (family, baseFret, name), every open shape comes before every shape
\* that is not open, and the shapes that are not open are in non-decreasing
\* order of baseFret
C17_OrderAndUniqueness ==
    (Returned("findVoicingsFor") /\ ~threw) =>
        /\ \A i, j \in 1..Len(retShapes) :
              i # j => <<retShapes[i].family, retShapes[i].baseFret, retShapes[i].name>>
                       # <<retShapes[j].family, retShapes[j].baseFret, retShapes[j].name>>
        /\ \A i, j \in 1..Len(retShapes) :
              (retShapes[i].family = "open" /\ retShapes[j].family # "open") => i < j
        /\ \A i, j \in 1..Len(retShapes) :
              (/\ i < j
               /\ retShapes[i].family # "open"
               /\ retShapes[j].family # "open") => retShapes[i].baseFret <= retShapes[j].baseFret

\* an open shape followed by barres of both families in fret order
C17_Witness ==
    /\ Returned("findVoicingsFor")
    /\ argText = <<"C">>
    /\ Len(retShapes) = 4
    /\ retShapes[1].family = "open"
    /\ retShapes[2].family = "barre-a" /\ retShapes[2].baseFret = 3
    /\ retShapes[3].family = "barre-e" /\ retShapes[3].baseFret = 8
    /\ retShapes[4].family = "barre-a" /\ retShapes[4].baseFret = 15

\* the root of a symbol in its sharp spelling
SharpRoot(sym) == SHARPS[PitchClass(SymbolRoot(sym)) + 1]

\* the key of the curated open shape for a root and a classified quality
OpenKeyOf(root, quality) ==
    root \o (CASE quality = "min"  -> <<"m">>
               [] quality = "7"    -> <<"7">>
               [] quality = "maj7" -> <<"m","a","j","7">>
               [] quality = "m7"   -> <<"m","7">>
               [] quality = "sus4" -> <<"s","u","s","4">>
               [] quality = "add9" -> <<"a","d","d","9">>
               [] OTHER            -> <<>>)

\* the open shapes among the shapes returned, in order
OpenReturned ==
    LET IsOpen(v) == v.family = "open"
    IN  SelectSeq(retShapes, IsOpen)

\* C18: the result of findVoicingsFor holds at most one open shape: the
\* curated OPEN_SHAPES entry of the sharp-normalized root with the
\* classified quality when there is one, otherwise the plain major open shape
\* of the root when there is one, otherwise none; for "F#m" it holds no open
\* shape, only the E-shape barre at fret 2, the A-shape barre at fret 9 and
\* the E-shape barre at fret 14
C18_OpenShapeLookup ==
    (Returned("findVoicingsFor") /\ ~threw /\ parseChordSymbol(argText).kind = "ok") =>
        LET root    == SharpRoot(argText)
            tail    == Drop(argText, Len(SymbolRoot(argText)))
            quality == coarseQuality([i \in 1..Len(tail) |-> toLowerCase(tail[i])])
            key     == OpenKeyOf(root, quality)
        IN  /\ Len(OpenReturned) <= 1
            /\ OpenReturned = IF key \in DOMAIN OPEN_SHAPES THEN <<OPEN_SHAPES[key]>>
                              ELSE IF root \in DOMAIN OPEN_SHAPES THEN <<OPEN_SHAPES[root]>>
                              ELSE <<>>
            /\ argText = <<"F","#","m">> =>
                  /\ OpenReturned = <<>>
                  /\ [i \in 1..Len(retShapes) |-> <<retShapes[i].family, retShapes[i].baseFret>>]
                       = << <<"barre-e", 2>>, <<"barre-a", 9>>, <<"barre-e", 14>> >>

\* G minor has no curated open shape: the open shape returned is plain G major
C18_Witness ==
    /\ Returned("findVoicingsFor")
    /\ argText = <<"G","m">>
    /\ Len(OpenReturned) = 1
    /\ OpenReturned[1] = OPEN_SHAPES[<<"G">>]
    /\ OpenReturned[1].quality = "maj"

\* the tail has an m, and every m of it begins "maj"
OnlyMajM(tail) ==
    /\ includes(tail, "m")
    /\ \A i \in 1..Len(tail) :
          tail[i] = "m" => (i + 2 <= Len(tail) /\ tail[i + 1] = "a" /\ tail[i + 2] = "j")

\* the tail has an m that stands at its start or after a character that is
\* no letter, digit or underscore, and that does not begin "maj"
HasLeadingMinorM(tail) ==
    \E i \in 1..Len(tail) :
        /\ tail[i] = "m"
        /\ i > 1 => ~IsWordChar(tail[i - 1])
        /\ SubSeq(tail, i, Min(i + 2, Len(tail))) # <<"m","a","j">>

\* C19: coarseQuality returns the bucket of the first test that passes in the
\* order maj7, m7, min, 7, sus4, add9, and majLike when none passes; so a
\* tail containing "maj7" is maj7 whatever else it contains, and a tail whose
\* only m begins "maj" is neither min nor m7; "maj" and "maj9" are majLike,
\* "m" and "min" are min, "m7" and "min7" are m7
C19_QualityPrecedence ==
    Returned("coarseQuality") =>
        LET maj7  == includesText(argText, <<"m","a","j","7">>)
            minor == HasLeadingMinorM(argText)
            seven == includes(argText, "7")
            sus4  == includesText(argText, <<"s","u","s","4">>)
            add9  == includesText(argText, <<"a","d","d","9">>)
        IN  /\ retQuality = IF maj7 THEN "maj7"
                            ELSE IF minor /\ seven THEN "m7"
                            ELSE IF minor THEN "min"
                            ELSE IF seven THEN "7"
                            ELSE IF sus4 THEN "sus4"
                            ELSE IF add9 THEN "add9"
                            ELSE "majLike"
            /\ maj7 => retQuality = "maj7"
            /\ OnlyMajM(argText) => retQuality \notin {"min", "m7"}
            /\ argText \in { <<"m","a","j">>, <<"m","a","j","9">> } => retQuality = "majLike"
            /\ argText \in { <<"m">>, <<"m","i","n">> } => retQuality = "min"
            /\ argText \in { <<"m","7">>, <<"m","i","n","7">> } => retQuality = "m7"

\* a tail that passes the tests for maj7, for a minor m and for 7 at once
C19_Witness ==
    /\ Returned("coarseQuality")
    /\ argText = <<"m","(","m","a","j","7",")">>
    /\ HasLeadingMinorM(argText)
    /\ retQuality = "maj7"

\* ------------------------------------------------------------------------
\* Properties of the substitution of the root
\* ------------------------------------------------------------------------
\* C20: for a symbol without "/" that starts with a root, a letter A-G and an
\* optional # or b after it, transposeChordSymbol returns the transposed root
\* followed by the tail of the input character for character, so the length
\* changes by at most 1; transposeChordText("C G Am F", 2, true) = "D A Bm G"
C20_RootOnlySubstitution ==
    /\ (/\ Returned("transposeChordSymbol")
        /\ argText # <<>>
        /\ ~includes(argText, "/")
        /\ argText[1] \in UpperRoots) =>
            LET root == SymbolRoot(argText)
                tail == Drop(argText, Len(root))
            IN  /\ retStr = transposeNote(root, steps, preferSharps) \o tail
                /\ Len(retStr) - Len(argText) \in {-1, 0, 1}
    /\ (/\ Returned("transposeChordText")
        /\ argText = <<"C"," ","G"," ","A","m"," ","F">>
        /\ steps = 2
        /\ preferSharps) => retStr = <<"D"," ","A"," ","B","m"," ","G">>

\* the bias within the score of a shapes key at the fret of the call, in half
\* points: the score less the open-shape bonus and the comfort bonus
BiasWithin(score, shapesKey) ==
    score - (IF shapesKey \in { <<"C">>, <<"G">>, <<"D">>, <<"A">>, <<"E">> } THEN 200 ELSE 0)
          - 2 * comfortBonus(capoFret)

BiasOf(shapesKey) == BiasWithin(scoreCapo(shapesKey, capoFret), shapesKey)

\* C21: the bias of scoreCapo is largest for shapes key G and strictly
\* decreases through C, D, A, E, and a shapes key outside G, C, D, A, E never
\* has a bias larger than that of any of the five
C21_KeyBias ==
    Returned("scoreCapo") =>
        LET bias == BiasWithin(retNum, argText)
        IN  /\ argText = <<"G">> => bias > BiasOf(<<"C">>)
            /\ argText = <<"C">> => bias > BiasOf(<<"D">>)
            /\ argText = <<"D">> => bias > BiasOf(<<"A">>)
            /\ argText = <<"A">> => bias > BiasOf(<<"E">>)
            /\ argText = <<"E">> => bias > 0
            /\ argText \notin { <<"G">>, <<"C">>, <<"D">>, <<"A">>, <<"E">> } =>
                  \A k \in { <<"G">>, <<"C">>, <<"D">>, <<"A">>, <<"E">> } : bias <= BiasOf(k)

\* C22: for each of the 15 canonical target keys, the shapes keys of the 5
\* suggestions returned by suggestCaposForTargetKey are exactly C, G, D, A, E,
\* each once
C22_OpenShapesOnly ==
    (Returned("suggestCaposForTargetKey") /\ argText \in AllKeys) =>
        /\ Len(retSuggestions) = 5
        /\ { retSuggestions[i].shapesKey : i \in 1..5 } = { <<"C">>, <<"G">>, <<"D">>, <<"A">>, <<"E">> }
        /\ \A i, j \in 1..5 : i # j => retSuggestions[i].shapesKey # retSuggestions[j].shapesKey

\* a flat key, none of whose suggestions is without a capo
C22_Witness ==
    /\ Returned("suggestCaposForTargetKey")
    /\ argText = <<"E","b">>
    /\ Len(retSuggestions) = 5
    /\ \A i \in 1..5 : retSuggestions[i].capoFret > 0
    /\ retSuggestions[1].shapesKey = <<"D">>

\* C23 as stated: for each of the 15 canonical keys k, shapesKeyFor(k, 0)
\* returns k itself
C23_NoCapoIsIdentity ==
    (Returned("shapesKeyFor") /\ argText \in AllKeys /\ capoFret = 0) => retStr = argText

\* C23 amended: for each canonical key k other than Cb, shapesKeyFor(k, 0)
\* returns k itself; for Cb it returns B, the spelling of the same pitch class
\* in the flat table
C23_NoCapoKeepsKey ==
    (Returned("shapesKeyFor") /\ argText \in AllKeys /\ capoFret = 0) =>
        /\ argText # <<"C","b">> => retStr = argText
        /\ argText = <<"C","b">> => retStr = <<"B">>
        /\ PitchClass(retStr) = PitchClass(argText)

\* the key Cb without a capo comes back as B
C23_Witness ==
    /\ Returned("shapesKeyFor")
    /\ argText = <<"C","b">>
    /\ capoFret = 0
    /\ retStr = <<"B">>

\* the quality the tail of a symbol is classified as
ClassifiedQuality(sym) ==
    LET tail == Drop(sym, Len(SymbolRoot(sym)))
    IN  coarseQuality([i \in 1..Len(tail) |-> toLowerCase(tail[i])])

LookupWithRoot(root, tail) == findVoicingsFor(root \o tail)

\* a symbol made of a recognized root and a tail of either kind
IsSpelledSymbol(sym) ==
    /\ sym # <<>>
    /\ SymbolRoot(sym) \in Spellings
    /\ Drop(sym, Len(SymbolRoot(sym))) \in TailTexts \cup AccidentalTails

\* the lookup of the symbol of the call gives the same result under every
\* spelling of its root, in shapes named by the sharp spelling of the root
SameUnderEverySpelling ==
    LET root == SymbolRoot(argText)
        tail == Drop(argText, Len(root))
    IN  /\ ~threw
        /\ \A other \in Spellings :
              PitchClass(other) = PitchClass(root) =>
                  LookupWithRoot(other, tail) = [threw |-> FALSE, shapes |-> retShapes]
        /\ \A i \in 1..Len(retShapes) :
              LET name == retShapes[i].name
                  n    == Len(SharpRoot(argText))
              IN  /\ Len(name) >= n
                  /\ Take(name, n) = SharpRoot(argText)
                  /\ (Len(name) > n /\ n = 1) => name[n + 1] \notin {"#", "b"}
                  /\ Take(retShapes[i].shortName, n) = SharpRoot(argText)

BarreQualityOf(quality) ==
    CASE quality = "min"     -> "min"
      [] quality = "m7"      -> "min"
      [] quality = "7"       -> "7"
      [] quality = "majLike" -> "maj"
      [] OTHER               -> "maj"

\* C26: for every symbol whose root is a valid note name with an uppercase
\* letter, whatever the tail, findVoicingsFor returns at least one barre-e and
\* at least one barre-a shape; the quality of every barre is the classified
\* quality for min, 7 and majLike tails (maj for majLike), min for m7 tails
\* and maj for maj7, sus4 and add9 tails; 2 to 4 shapes are returned in all
C26_BarreCoverage ==
    (/\ Returned("findVoicingsFor")
     /\ argText # <<>>
     /\ SymbolRoot(argText) \in Spellings) =>
        /\ ~threw
        /\ \E i \in 1..Len(retShapes) : retShapes[i].family = "barre-e"
        /\ \E i \in 1..Len(retShapes) : retShapes[i].family = "barre-a"
        /\ \A i \in 1..Len(retShapes) :
              retShapes[i].family \in {"barre-e", "barre-a"} =>
                  retShapes[i].quality = BarreQualityOf(ClassifiedQuality(argText))
        /\ Len(retShapes) \in 2..4

\* ------------------------------------------------------------------------
\* Properties of the share-state tokens
\* ------------------------------------------------------------------------
\* the text decodeShareState hands to the Base64 decoder for a token
HandedToBase64(token) ==
    IF shareEnv.copy = "utf8" THEN fromUrlSafe(token) ELSE base64urlPadded(token)

\* C27: decodeShareState(encodeShareState(s)) returns a state equal to s for
\* every share state s; the text handed to the Base64 decoder has a length
\* that is a multiple of 4; and decodeShareState returns null, and throws
\* nothing, for a token that does not decode to an object with the seven
\* typed fields
C27_ShareRoundTrip ==
    /\ (fn = "encodeShareState" /\ pc = "encoded")
           => Len(HandedToBase64(retStr)) % 4 = 0
    /\ (fn = "encodeShareState" /\ pc = "return")
           => ~threw /\ ~retNull /\ retState = argState
    /\ (fn = "decodeShareState" /\ pc = "return")
           => ~threw /\ retNull

\* ------------------------------------------------------------------------
\* Properties of the popover
\* ------------------------------------------------------------------------
\* C28: whenever the card renders a diagram, 0 <= idx < voicings.length for
\* the voicings of the symbol displayed, whatever previous / next clicks and
\* changes of the symbol came before
C28_IndexInRange ==
    (pop.open /\ Len(voicings(pop.sym)) > 0)
        => (card.idx >= 0 /\ card.idx < Len(voicings(pop.sym)))

\* ------------------------------------------------------------------------
\* Properties of the demo text
\* ------------------------------------------------------------------------
\* once isDemo is false the chart shown is the chart the user typed last or
\* the link carried
UserTextShown == ~transposer.isDemo => transposer.input = userText

\* isDemo never becomes true again
DemoEndsForGood == [][~transposer.isDemo => ~transposer'.isDemo]_vars

\* while isDemo stays true, a change of the From key puts the sample chart
\* transposed from C to the new key into the input
DemoFollowsFromKey ==
    [][(transposer.mounted /\ transposer'.isDemo /\ transposer'.fromKey # transposer.fromKey)
          => transposer'.input = renderDemoForKey(transposer'.fromKey)]_vars

\* once isDemo is false, only an edit changes the input
OnlyEditsChangeInput ==
    [][(~transposer.isDemo /\ userText' = userText) => transposer'.input = transposer.input]_vars

\* C29: the demo text never replaces the user's text: once the user has
\* edited the input or a link has been loaded, isDemo is false for good, the
\* input is the user's text and no change of a key, swap or capo control
\* changes it; while isDemo is true every change of the From key puts the
\* sample chart transposed from C to that key into the input
C29_DemoNeverClobbers ==
    /\ []UserTextShown
    /\ DemoEndsForGood
    /\ OnlyEditsChangeInput
    /\ DemoFollowsFromKey

\* ------------------------------------------------------------------------
\* Properties of the toaster
\* ------------------------------------------------------------------------
ShownIds == { toaster.toasts[i].id : i \in 1..Len(toaster.toasts) }

\* a call of toast() adds one toast at the end, with the id of idRef, which
\* is above every id given before, and a duration in 800..60000
ToastAddsOne ==
    [][toaster'.idRef # toaster.idRef =>
          /\ toaster'.idRef = toaster.idRef + 1
          /\ Len(toaster'.toasts) = Len(toaster.toasts) + 1
          /\ SubSeq(toaster'.toasts, 1, Len(toaster.toasts)) = toaster.toasts
          /\ LET t == toaster'.toasts[Len(toaster'.toasts)]
             IN  /\ t.id = toaster.idRef
                 /\ \A i \in 1..Len(toaster.asked) : i < t.id
                 /\ \A id \in ShownIds : id < t.id
                 /\ t.duration >= 800 /\ t.duration <= 60000]_vars

\* every toast has the duration asked for, brought into 800..60000, and 1600
\* when none was asked for
DurationsClamped ==
    \A i \in 1..Len(toaster.toasts) :
        LET t == toaster.toasts[i]
            a == toaster.asked[t.id]
        IN  t.duration = IF a = NoDuration THEN 1600
                         ELSE IF a < 800 THEN 800
                         ELSE IF a > 60000 THEN 60000
                         ELSE a

\* a timer that fires removes the toast of its id, if it is shown, and no other
TimerRemovesItsToast ==
    [][(toaster'.idRef = toaster.idRef /\ toaster'.toasts # toaster.toasts) =>
          \E id \in ShownIds :
              /\ id \in toaster.timers /\ id \notin toaster'.timers
              /\ toaster'.toasts = SelectSeq(toaster.toasts, LAMBDA t : t.id # id)
              /\ Len(toaster'.toasts) = Len(toaster.toasts) - 1]_vars

\* every toast shown is removed in the end
ToastsGoAway == \A id \in ToastIds : (id \in ShownIds) ~> (id \notin ShownIds)

\* C30: every call of toast() adds one toast with a fresh id above all
\* earlier ids and a duration brought into 800..60000 ms (1600 by default);
\* every toast is removed in the end, when its own timer fires, and a timer
\* removes only the toast of its id, however calls and timers interleave
C30_ToastLifecycle ==
    /\ ToastAddsOne
    /\ []DurationsClamped
    /\ TimerRemovesItsToast
    /\ ToastsGoAway

\* two toasts were made, the timer of the second has fired and the first is
\* still shown
C30_Witness ==
    /\ toaster.idRef = 3
    /\ ShownIds = {1}
    /\ toaster.timers = {1}
    /\ toaster.asked[1] = NoDuration

====
